---------------------------- MODULE Spec2Model ----------------------------
(***************************************************************************)
(* One invocation of the notify CLI (src/cli.ts): phone validation,        *)
(* provider detection, credential loading, client construction and send,   *)
(* with the four backends' error mapping and the exit-code mapping.        *)
(*                                                                         *)
(* Text values are sequences of one-character strings, so that the string  *)
(* operations of the code (trim, replace, toLowerCase, join) are computed  *)
(* rather than assumed.  Fixed texts that the code only passes along       *)
(* (messages, guidance, URLs) are kept as single pieces of such sequences. *)
(***************************************************************************)
EXTENDS Integers, Sequences, FiniteSets, TLC

VARIABLES
    pc,                 \* position inside program.action (cli.ts)
    env,                \* process.env
    argv,               \* the arguments and options commander passes in
    phoneResult,        \* cli.ts: const phoneResult
    provider,           \* cli.ts: const provider
    credentialsResult,  \* cli.ts: const credentialsResult
    client,             \* cli.ts: let client
    transport,          \* what the backend's transport answered to the request
    result,             \* cli.ts: const result
    network,            \* the outbound requests issued so far
    stdout,             \* console.log / console.warn lines
    stderr,             \* console.error output
    exitCode,           \* the code the process exits with
    reported,           \* the errors exitWithError was called with
    stages,             \* the stages attempted so far, in order
    segmentInfo,        \* cli.ts: const segmentInfo
    sanitized,          \* phone.ts: const sanitized
    configFile          \* ~/.config/notify/.env, until loadConfigFile has read it

vars == <<pc, env, argv, phoneResult, provider, credentialsResult, client,
          transport, result, network, stdout, stderr, exitCode, reported,
          stages, segmentInfo, sanitized, configFile>>

----------------------------------------------------------------------------
(* JavaScript values *)

\* JavaScript's undefined, where a text is expected: no text holds this piece
Undefined == <<"undefined">>

\* !!s for a value that is a string or undefined
Truthy(s) == s # Undefined /\ s # <<>>

\* a || b for a value that is a string or undefined
OrElse(a, b) == IF Truthy(a) THEN a ELSE b

\* A message or a guidance is a sequence of pieces: a fixed text is one
\* piece, a text of the user's (a phone number, a provider's message) is
\* spliced in character by character.

\* where an optional object is absent
None == [absent |-> TRUE]

RECURSIVE join(_, _)
\* Array.prototype.join over an array of fixed texts
join(parts, sep) ==
    IF Len(parts) = 0 THEN ""
    ELSE IF Len(parts) = 1 THEN parts[1]
    ELSE parts[1] \o sep \o join(Tail(parts), sep)

RECURSIVE joinPieces(_, _)
\* Array.prototype.join over an array of texts given as pieces: the names a
\* message lists stay pieces of their own
joinPieces(parts, sep) ==
    IF Len(parts) = 0 THEN <<>>
    ELSE IF Len(parts) = 1 THEN parts[1]
    ELSE parts[1] \o <<sep>> \o joinPieces(Tail(parts), sep)

----------------------------------------------------------------------------
(* src/sms/types.ts *)

ErrorCode == {"INVALID_PHONE", "MISSING_CONFIG", "AUTH_FAILED",
              "NETWORK_ERROR", "PROVIDER_ERROR", "RATE_LIMITED"}

SendError(code, message, retryable, guidance) ==
    [code |-> code, message |-> message, retryable |-> retryable,
     guidance |-> guidance]

ExitCodes == [SUCCESS |-> 0, GENERAL_ERROR |-> 1, INVALID_ARGUMENTS |-> 2,
              CONFIG_ERROR |-> 3, VALIDATION_ERROR |-> 4, NETWORK_ERROR |-> 5]

\* A text is a sequence of code points.  A code point beyond the Basic
\* Multilingual Plane is written by its number and occupies two UTF-16 units.
Astral == {"U+1F600"}

GSM7_BASIC_CHARS ==
    {"@", "£", "$", "¥", "è", "é", "ù", "ì", "ò", "Ç", "\n", "Ø", "ø", "\r", "Å", "å",
     "Δ", "_", "Φ", "Γ", "Λ", "Ω", "Π", "Ψ", "Σ", "Θ", "Ξ", "Æ", "æ", "ß", "É",
     " ", "!", "\"", "#", "¤", "%", "&", "'", "(", ")", "*", "+", ",", "-", ".", "/",
     "0", "1", "2", "3", "4", "5", "6", "7", "8", "9", ":", ";", "<", "=", ">", "?",
     "¡", "A", "B", "C", "D", "E", "F", "G", "H", "I", "J", "K", "L", "M", "N", "O",
     "P", "Q", "R", "S", "T", "U", "V", "W", "X", "Y", "Z", "Ä", "Ö", "Ñ", "Ü", "§",
     "¿", "a", "b", "c", "d", "e", "f", "g", "h", "i", "j", "k", "l", "m", "n", "o",
     "p", "q", "r", "s", "t", "u", "v", "w", "x", "y", "z", "ä", "ö", "ñ", "ü", "à"}

GSM7_EXTENDED_CHARS == {"|", "^", "€", "{", "}", "[", "]", "~", "\\"}

\* detectMessageEncoding looking at the basic set only
detectMessageEncoding_basicOnly(text) ==
    IF \E i \in 1..Len(text) : text[i] \notin GSM7_BASIC_CHARS
    THEN "UCS-2"
    ELSE "GSM-7"

detectMessageEncoding(text) ==
    IF \E i \in 1..Len(text) :
          text[i] \notin GSM7_BASIC_CHARS /\ text[i] \notin GSM7_EXTENDED_CHARS
    THEN "UCS-2"
    ELSE "GSM-7"

\* how many code points of the text are in a set
count(text, set) == Cardinality({i \in 1..Len(text) : text[i] \in set})

\* String.prototype.length: the UTF-16 units of the text
length(text) == Len(text) + count(text, Astral)

\* the loop "charCount += GSM7_EXTENDED_CHARS.has(char) ? 2 : 1"
gsmCount(text) == Len(text) + count(text, GSM7_EXTENDED_CHARS)

\* Math.ceil(a / b) for positive b
ceilDiv(a, b) == (a + b - 1) \div b

\* calculateSegmentCount dividing by the single-segment limit
calculateSegmentCount_singleLimit(text) ==
    LET encoding == detectMessageEncoding(text)
        charCount == IF encoding = "GSM-7" THEN gsmCount(text) ELSE length(text)
        singleLimit == IF encoding = "GSM-7" THEN 160 ELSE 70
    IN  [encoding |-> encoding, charCount |-> charCount,
         segmentCount |-> IF charCount <= singleLimit THEN 1
                          ELSE ceilDiv(charCount, singleLimit)]

calculateSegmentCount(text) ==
    LET encoding == detectMessageEncoding(text)
        charCount == IF encoding = "GSM-7"
                     THEN gsmCount(text)
                     ELSE length(text)
        singleLimit == IF encoding = "GSM-7" THEN 160 ELSE 70
        multiLimit  == IF encoding = "GSM-7" THEN 153 ELSE 67
        segmentCount == IF charCount <= singleLimit THEN 1
                        ELSE ceilDiv(charCount, multiLimit)
    IN  [encoding |-> encoding, segmentCount |-> segmentCount,
         charCount |-> charCount]

Digit == [c \in {"0", "1", "2", "3", "4", "5", "6", "7", "8", "9"} |->
            CASE c = "0" -> 0 [] c = "1" -> 1 [] c = "2" -> 2 [] c = "3" -> 3
              [] c = "4" -> 4 [] c = "5" -> 5 [] c = "6" -> 6 [] c = "7" -> 7
              [] c = "8" -> 8 [] c = "9" -> 9]

isDigit(c) == c \in DOMAIN Digit

\* JavaScript's NaN, where a number is expected
NaN == -1

RECURSIVE parseDigits(_, _)
parseDigits(s, acc) ==
    IF Len(s) = 0 \/ ~isDigit(Head(s)) THEN acc
    ELSE parseDigits(Tail(s), 10 * acc + Digit[Head(s)])

\* parseInt(s, 10) of a text without sign or leading blanks: the number its
\* leading digits spell, NaN when it does not start with a digit
parseInt(s) ==
    IF Len(s) = 0 \/ ~isDigit(Head(s)) THEN NaN ELSE parseDigits(s, 0)

\* the defaults of the optional settings
smtp_gmail_com == <<"smtp.gmail.com">>
https_ntfy_sh == <<"https://ntfy.sh">>

----------------------------------------------------------------------------
(* src/config/loader.ts *)

\* detectProvider with the first two checks in the other order
detectProvider_ntfyFirst(e) ==
    LET hasPushover == Truthy(e.PUSHOVER_USER) /\ Truthy(e.PUSHOVER_TOKEN)
        hasNtfy     == Truthy(e.NTFY_TOPIC)
        hasTwilio   == Truthy(e.TWILIO_ACCOUNT_SID) /\ Truthy(e.TWILIO_AUTH_TOKEN)
        hasEmail    == Truthy(e.EMAIL_USER) /\ Truthy(e.EMAIL_PASS)
    IN  IF hasNtfy THEN "ntfy"
        ELSE IF hasPushover THEN "pushover"
        ELSE IF hasTwilio THEN "twilio"
        ELSE IF hasEmail THEN "email"
        ELSE "none"

\* detectProvider taking the user key alone as the sign of Pushover
detectProvider_userKeyOnly(e) ==
    LET hasPushover == Truthy(e.PUSHOVER_USER)
        hasNtfy     == Truthy(e.NTFY_TOPIC)
        hasTwilio   == Truthy(e.TWILIO_ACCOUNT_SID) /\ Truthy(e.TWILIO_AUTH_TOKEN)
        hasEmail    == Truthy(e.EMAIL_USER) /\ Truthy(e.EMAIL_PASS)
    IN  IF hasPushover THEN "pushover"
        ELSE IF hasNtfy THEN "ntfy"
        ELSE IF hasTwilio THEN "twilio"
        ELSE IF hasEmail THEN "email"
        ELSE "none"

detectProvider(e) ==
    LET hasPushover == Truthy(e.PUSHOVER_USER) /\ Truthy(e.PUSHOVER_TOKEN)
        hasNtfy     == Truthy(e.NTFY_TOPIC)
        hasTwilio   == Truthy(e.TWILIO_ACCOUNT_SID) /\ Truthy(e.TWILIO_AUTH_TOKEN)
        hasEmail    == Truthy(e.EMAIL_USER) /\ Truthy(e.EMAIL_PASS)
    IN  IF hasPushover THEN "pushover"
        ELSE IF hasNtfy THEN "ntfy"
        ELSE IF hasTwilio THEN "twilio"
        ELSE IF hasEmail THEN "email"
        ELSE "none"

\* the missing list with only the unset variables pushed
missingOf_unsetOnly(e, names) == SelectSeq(names, LAMBDA v : e[v] = Undefined)

\* the array built by the loaders' "if (!x) missing.push(name)" lines
missingOf(e, names) == SelectSeq(names, LAMBDA v : ~Truthy(e[v]))

\* the line (v) => `  export ${v}="your-value"` of the guidance
exportLine(v) == <<"  export ", v, "=\"your-value\"">>

\* the MISSING_CONFIG error the loaders with a missing list return
missingConfig(missing, tail) ==
    SendError("MISSING_CONFIG",
              <<"Missing required environment variables: ">>
                    \o joinPieces([i \in 1..Len(missing) |-> <<missing[i]>>], ", "),
              FALSE,
              <<"Please set the following environment variables:\n">>
                    \o joinPieces([i \in 1..Len(missing) |-> exportLine(missing[i])],
                                  "\n")
                    \o <<tail>>)

\* loadCredentials testing what detectProvider tests, and with undefined only
loadCredentials_presentOnly(e) ==
    LET missing == SelectSeq(<<"TWILIO_ACCOUNT_SID", "TWILIO_AUTH_TOKEN">>,
                             LAMBDA v : e[v] = Undefined)
    IN  IF Len(missing) > 0
        THEN [success |-> FALSE, credentials |-> None,
              error |-> missingConfig(missing,
                  "\n\nGet these values from https://console.twilio.com")]
        ELSE [success |-> TRUE, error |-> None,
              credentials |-> [accountSid |-> e.TWILIO_ACCOUNT_SID,
                               authToken |-> e.TWILIO_AUTH_TOKEN,
                               fromNumber |-> e.TWILIO_PHONE_NUMBER]]

loadCredentials(e) ==
    LET accountSid == e.TWILIO_ACCOUNT_SID
        authToken  == e.TWILIO_AUTH_TOKEN
        fromNumber == e.TWILIO_PHONE_NUMBER
        missing == missingOf(e, <<"TWILIO_ACCOUNT_SID", "TWILIO_AUTH_TOKEN",
                                  "TWILIO_PHONE_NUMBER">>)
    IN  IF Len(missing) > 0
        THEN [success |-> FALSE, credentials |-> None,
              error |-> missingConfig(missing,
                  "\n\nGet these values from https://console.twilio.com")]
        ELSE [success |-> TRUE, error |-> None,
              credentials |-> [accountSid |-> accountSid,
                               authToken |-> authToken,
                               fromNumber |-> fromNumber]]

\* loadEmailCredentials with the port and the flag never read
loadEmailCredentials_fixedPort(e) ==
    LET missing == missingOf(e, <<"EMAIL_USER", "EMAIL_PASS", "SMS_CARRIER">>)
    IN  IF Len(missing) > 0
        THEN [success |-> FALSE, credentials |-> None,
              error |-> missingConfig(missing,
                  "\n\nSupported carriers: att, tmobile, verizon, sprint")]
        ELSE [success |-> TRUE, error |-> None,
              credentials |-> [host |-> OrElse(e.EMAIL_HOST, smtp_gmail_com),
                               port |-> 587, secure |-> FALSE,
                               user |-> e.EMAIL_USER, pass |-> e.EMAIL_PASS,
                               carrier |-> e.SMS_CARRIER]]

loadEmailCredentials(e) ==
    LET user    == e.EMAIL_USER
        pass    == e.EMAIL_PASS
        carrier == e.SMS_CARRIER
        host    == OrElse(e.EMAIL_HOST, smtp_gmail_com)
        port    == parseInt(OrElse(e.EMAIL_PORT, <<"5", "8", "7">>))
        secure  == e.EMAIL_SECURE = <<"t", "r", "u", "e">>
        missing == missingOf(e, <<"EMAIL_USER", "EMAIL_PASS", "SMS_CARRIER">>)
    IN  IF Len(missing) > 0
        THEN [success |-> FALSE, credentials |-> None,
              error |-> missingConfig(missing,
                  "\n\nSupported carriers: att, tmobile, verizon, sprint")]
        ELSE [success |-> TRUE, error |-> None,
              credentials |-> [host |-> host, port |-> port, secure |-> secure,
                               user |-> user, pass |-> pass,
                               carrier |-> carrier]]

loadNtfyCredentials(e) ==
    LET topic  == e.NTFY_TOPIC
        server == OrElse(e.NTFY_SERVER, https_ntfy_sh)
    IN  IF ~Truthy(topic)
        THEN [success |-> FALSE, credentials |-> None,
              error |-> SendError("MISSING_CONFIG",
                  <<"Missing required environment variable: ", "NTFY_TOPIC">>,
                  FALSE,
                  <<"Please set your ntfy topic:\n  export ", "NTFY_TOPIC",
                    "=\"your-topic-name\"\n\nThen subscribe to this topic on your phone using the ntfy app.">>)]
        ELSE [success |-> TRUE, error |-> None,
              credentials |-> [topic |-> topic, server |-> server]]

loadPushoverCredentials(e) ==
    LET userKey  == e.PUSHOVER_USER
        apiToken == e.PUSHOVER_TOKEN
        missing == missingOf(e, <<"PUSHOVER_USER", "PUSHOVER_TOKEN">>)
    IN  IF Len(missing) > 0
        THEN [success |-> FALSE, credentials |-> None,
              error |-> missingConfig(missing,
                  "\n\nGet these values from https://pushover.net")]
        ELSE [success |-> TRUE, error |-> None,
              credentials |-> [userKey |-> userKey, apiToken |-> apiToken]]

----------------------------------------------------------------------------
(* src/validation/phone.ts *)

\* the characters /\s/ matches, among those the inputs use
isSpace(c) == c \in {" ", "\t", "\n"}

RECURSIVE trimStart(_)
trimStart(s) == IF Len(s) > 0 /\ isSpace(Head(s)) THEN trimStart(Tail(s)) ELSE s

RECURSIVE trimEnd(_)
trimEnd(s) ==
    IF Len(s) > 0 /\ isSpace(s[Len(s)]) THEN trimEnd(SubSeq(s, 1, Len(s) - 1))
    ELSE s

\* String.prototype.trim
trim(s) == trimEnd(trimStart(s))

\* String.prototype.startsWith, for a one-character prefix
startsWith(s, c) == Len(s) > 0 /\ Head(s) = c

\* sanitizePhoneNumber with the periods left in
sanitizePhoneNumber_keepsPeriods(input) ==
    SelectSeq(trim(input), LAMBDA c : ~(isSpace(c) \/ c \in {"-", "(", ")"}))

sanitizePhoneNumber(input) ==
    LET trimmed  == trim(input)
        hasPlus  == startsWith(trimmed, "+")
        stripped == SelectSeq(trimmed,
                        LAMBDA c : ~(isSpace(c) \/ c \in {"-", "(", ")", "."}))
    IN  IF hasPlus /\ ~startsWith(stripped, "+")
        THEN <<"+">> \o stripped
        ELSE stripped

allDigits(s) == \A i \in 1..Len(s) : isDigit(s[i])

\* The regions of the library's metadata that the model carries: the calling
\* code and the length of a possible national number.
Regions == {"US", "GB"}
callingCode == [r \in Regions |-> IF r = "US" THEN <<"1">> ELSE <<"4", "4">>]
nationalLength == [r \in Regions |-> 10]

\* the region whose calling code the digits of an international number begin
\* with ("ZZ" when the model carries none)
regionOf(digits) ==
    LET matching == {r \in Regions :
                        /\ Len(digits) >= Len(callingCode[r])
                        /\ SubSeq(digits, 1, Len(callingCode[r])) = callingCode[r]}
    IN  IF matching = {} THEN "ZZ" ELSE CHOOSE r \in matching : TRUE

\* What parsePhoneNumber of libphonenumber-js may answer for a text and a
\* default region: a parsed number (its region, whether isPossible() holds,
\* its E.164 format), undefined, or an exception.
libphonenumber(text, defaultCountry) ==
    LET international == startsWith(text, "+")
        digits == IF international THEN Tail(text) ELSE text
        region == IF international THEN regionOf(digits) ELSE defaultCountry
        national == IF international /\ region \in Regions
                    THEN SubSeq(digits, Len(callingCode[region]) + 1, Len(digits))
                    ELSE digits
    IN  IF Len(digits) < 2 \/ ~allDigits(digits) \/ region \notin Regions
        THEN {[kind |-> "undefined", possible |-> FALSE, e164 |-> <<>>,
               country |-> "ZZ"],
              [kind |-> "throws", possible |-> FALSE, e164 |-> <<>>,
               country |-> "ZZ"]}
        ELSE {[kind |-> "phone",
               possible |-> Len(national) = nationalLength[region],
               e164 |-> <<"+">> \o callingCode[region] \o national,
               country |-> region]}

\* the guidance of the two "could not be parsed" failures
couldNotBeParsed(input) ==
    <<"The phone number \"">> \o input
        \o <<"\" could not be parsed. Please provide a valid phone number in E.164 format (e.g., +14155552671) or national format with --country flag.">>

\* validateAndFormatPhone returning the input as the canonical value
validated_rawAsCanonical(input, phone) ==
    IF phone.kind # "phone" \/ ~phone.possible
    THEN [success |-> FALSE, phone |-> None,
          error |-> SendError("INVALID_PHONE", <<"Invalid phone number format">>,
                              FALSE, couldNotBeParsed(input))]
    ELSE [success |-> TRUE, error |-> None,
          phone |-> [raw |-> input, e164 |-> input, country |-> phone.country]]

\* validateAndFormatPhone once the library has answered `phone`
validated(input, phone) ==
    IF phone.kind = "throws"
    THEN [success |-> FALSE, phone |-> None,
          error |-> SendError("INVALID_PHONE", <<"Invalid phone number format">>,
                              FALSE, couldNotBeParsed(input))]
    ELSE IF phone.kind = "undefined"
    THEN [success |-> FALSE, phone |-> None,
          error |-> SendError("INVALID_PHONE", <<"Could not parse phone number">>,
                              FALSE, couldNotBeParsed(input))]
    ELSE IF ~phone.possible
    THEN [success |-> FALSE, phone |-> None,
          error |-> SendError("INVALID_PHONE",
                              <<"Phone number has invalid length">>, FALSE,
                              <<"The phone number \"">> \o input
                                \o <<"\" has an invalid length for the detected country. Please check the number and try again.">>)]
    ELSE [success |-> TRUE, error |-> None,
          phone |-> [raw |-> input, e164 |-> phone.e164,
                     country |-> phone.country]]

\* validateAndFormatPhone reporting the sanitized text in place of the input
validateAndFormatPhone_sanitizedInput(input, defaultCountry) ==
    {validated(sanitizePhoneNumber(input), phone) :
        phone \in libphonenumber(sanitizePhoneNumber(input), defaultCountry)}

\* the results validateAndFormatPhone may return
validateAndFormatPhone(input, defaultCountry) ==
    {validated(input, phone) :
        phone \in libphonenumber(sanitizePhoneNumber(input), defaultCountry)}

----------------------------------------------------------------------------
(* What a transport hands back to a backend *)

\* the `code` property of a thrown value: a number, a string, or none
NumCode(n) == [type |-> "number", num |-> n, str |-> ""]
StrCode(c) == [type |-> "string", num |-> 0, str |-> c]
NoCode     == [type |-> "none", num |-> 0, str |-> ""]

\* a thrown value: whether it is an object, whether it is an Error, its code
\* property if it has one, and its message
Thrown(isObject, isError, code, message) ==
    [isObject |-> isObject, isError |-> isError, code |-> code,
     message |-> message]

\* 'code' in err, after "err && typeof err === 'object'"
hasCode(err) == err.isObject /\ err.code.type # "none"

\* err instanceof Error ? err.message : 'Unknown error'
messageOf(err) == IF err.isError THEN err.message ELSE <<"Unknown error">>

\* String.prototype.includes
includes(text, part) ==
    \E i \in 0..(Len(text) - Len(part)) : SubSeq(text, i + 1, i + Len(part)) = part

\* the body of an HTTP response: whether it parses as JSON, and the fields
\* the backends read from the parsed object (each may be undefined)
Body(json, text, id, status, request, errors) ==
    [json |-> json, text |-> text, id |-> id, status |-> status,
     request |-> request, errors |-> errors]
NoBody == Body(FALSE, <<>>, Undefined, 0, Undefined, <<>>)

\* the promise resolved with a provider's identifier
Resolved(id) ==
    [kind |-> "resolved", id |-> id, err |-> Thrown(FALSE, FALSE, NoCode, <<>>),
     status |-> 0, body |-> NoBody]
\* the promise rejected
Rejected(err) ==
    [kind |-> "rejected", id |-> Undefined, err |-> err, status |-> 0,
     body |-> NoBody]
\* fetch resolved with an HTTP response
Response(status, body) ==
    [kind |-> "response", id |-> Undefined,
     err |-> Thrown(FALSE, FALSE, NoCode, <<>>), status |-> status,
     body |-> body]

\* what response.json() throws on a body that is not JSON
SyntaxError == Thrown(TRUE, TRUE, NoCode, <<"Unexpected", " ", "token">>)

\* a send result (SendResult of types.ts, without the timestamp)
Success(to, messageId) ==
    [success |-> TRUE, messageId |-> messageId, to |-> to, error |-> None]
Failure(to, error) ==
    [success |-> FALSE, messageId |-> Undefined, to |-> to, error |-> error]

----------------------------------------------------------------------------
(* src/sms/providers/twilio.ts *)

TwilioSmsClient(credentials) ==
    [kind |-> "twilio",
     client |-> [accountSid |-> credentials.accountSid,
                 authToken |-> credentials.authToken],
     fromNumber |-> credentials.fromNumber]

mapTwilioError(err) ==
    IF hasCode(err) /\ err.code = NumCode(20003)
    THEN SendError("AUTH_FAILED", <<"Authentication failed">>, FALSE,
             <<"Your Twilio credentials are invalid. Please verify your TWILIO_ACCOUNT_SID and TWILIO_AUTH_TOKEN at https://console.twilio.com">>)
    ELSE IF hasCode(err) /\ err.code = NumCode(29)
    THEN SendError("RATE_LIMITED", <<"Too many requests">>, TRUE,
             <<"You have exceeded the rate limit. Please wait a moment and try again.">>)
    ELSE IF hasCode(err) /\ err.code \in {NumCode(21211), NumCode(21614)}
    THEN SendError("INVALID_PHONE",
             OrElse(err.message, <<"Invalid phone number">>), FALSE,
             <<"The destination phone number is invalid or cannot receive SMS. Please check the number and try again.">>)
    ELSE IF hasCode(err) /\ err.code \in {StrCode("ENOTFOUND"),
                                          StrCode("ECONNREFUSED"),
                                          StrCode("ETIMEDOUT")}
    THEN SendError("NETWORK_ERROR", <<"Network connection failed">>, TRUE,
             <<"Could not connect to Twilio. Please check your internet connection and try again.">>)
    ELSE SendError("PROVIDER_ERROR",
             <<"SMS provider error: ">> \o messageOf(err), FALSE,
             <<"An error occurred while sending the SMS. Please try again or contact support.">>)

\* the one call of client.messages.create
twilioRequest(self, to, body) ==
    [via |-> "twilio", url |-> <<"messages.create">>, to |-> to,
     from |-> self.fromNumber, body |-> body,
     auth |-> <<self.client.accountSid, self.client.authToken>>]

\* TwilioSmsClient.sendSms, given what messages.create answered
twilioSendSms(self, to, body, answer) ==
    IF answer.kind = "resolved"
    THEN Success(to, answer.id)
    ELSE Failure(to, mapTwilioError(answer.err))

----------------------------------------------------------------------------
(* src/sms/providers/email-gateway.ts *)

Upper == <<"A", "B", "C", "D", "E", "F", "G", "H", "I", "J", "K", "L", "M",
           "N", "O", "P", "Q", "R", "S", "T", "U", "V", "W", "X", "Y", "Z">>
Lower == <<"a", "b", "c", "d", "e", "f", "g", "h", "i", "j", "k", "l", "m",
           "n", "o", "p", "q", "r", "s", "t", "u", "v", "w", "x", "y", "z">>

\* String.prototype.toLowerCase
toLowerCase(s) ==
    [i \in 1..Len(s) |->
        IF \E k \in 1..Len(Upper) : Upper[k] = s[i]
        THEN Lower[CHOOSE k \in 1..Len(Upper) : Upper[k] = s[i]]
        ELSE s[i]]

\* the carriers and their gateways, as <<key, domain>>
CARRIER_GATEWAYS ==
    << <<(<<"a", "t", "t">>), <<"txt.att.net">> >>,
       <<(<<"t", "m", "o", "b", "i", "l", "e">>), <<"tmomail.net">> >>,
       <<(<<"v", "e", "r", "i", "z", "o", "n">>), <<"vtext.com">> >>,
       <<(<<"s", "p", "r", "i", "n", "t">>), <<"messaging.sprintpcs.com">> >>,
       <<(<<"u", "s", "c", "e", "l", "l", "u", "l", "a", "r">>), <<"email.uscc.net">> >>,
       <<(<<"b", "o", "o", "s", "t">>), <<"sms.myboostmobile.com">> >>,
       <<(<<"c", "r", "i", "c", "k", "e", "t">>), <<"sms.cricketwireless.net">> >>,
       <<(<<"m", "e", "t", "r", "o", "p", "c", "s">>), <<"mymetropcs.com">> >>,
       <<(<<"v", "i", "r", "g", "i", "n">>), <<"vmobl.com">> >> >>

\* what the object literal inherits from Object.prototype under a key in
\* lower case, as a template literal renders it: the function Object and the
\* prototype object, both truthy
Inherited ==
    << <<(<<"c", "o", "n", "s", "t", "r", "u", "c", "t", "o", "r">>),
         <<"function Object() { [native code] }">> >>,
       <<(<<"_", "_", "p", "r", "o", "t", "o", "_", "_">>),
         <<"[object Object]">> >> >>

\* CARRIER_GATEWAYS[key]: the domain of a key the literal holds, the
\* inherited property of a key it inherits, undefined for any other key
gatewayOf(key) ==
    LET properties == CARRIER_GATEWAYS \o Inherited
    IN  IF \E i \in 1..Len(properties) : properties[i][1] = key
        THEN properties[CHOOSE i \in 1..Len(properties) :
                            properties[i][1] = key][2]
        ELSE Undefined

\* the constructor: the client, or the Error it throws for an unknown carrier
EmailGatewaySmsClient(credentials) ==
    LET domain == gatewayOf(toLowerCase(credentials.carrier))
    IN  IF ~Truthy(domain)
        THEN [kind |-> "thrown",
              message |-> <<"Unknown carrier: ">> \o credentials.carrier
                            \o <<". Supported: att, tmobile, verizon, sprint, uscellular, boost, cricket, metropcs, virgin">>]
        ELSE [kind |-> "email",
              transporter |-> [host |-> credentials.host,
                               port |-> credentials.port,
                               secure |-> credentials.secure,
                               user |-> credentials.user,
                               pass |-> credentials.pass],
              fromEmail |-> credentials.user,
              carrierDomain |-> domain]

mapEmailError(err) ==
    IF hasCode(err) /\ err.code = StrCode("EAUTH")
    THEN SendError("AUTH_FAILED", <<"Email authentication failed">>, FALSE,
             <<"Your email credentials are invalid. Check EMAIL_USER and EMAIL_PASS in your .env file.">>)
    ELSE IF hasCode(err) /\ err.code \in {StrCode("ECONNREFUSED"),
                                          StrCode("ENOTFOUND")}
    THEN SendError("NETWORK_ERROR", <<"Could not connect to email server">>, TRUE,
             <<"Check your internet connection and EMAIL_HOST setting.">>)
    ELSE SendError("PROVIDER_ERROR",
             <<"Email gateway error: ">> \o messageOf(err), FALSE,
             <<"An error occurred while sending via email gateway. Check your email settings.">>)

\* the address the mail goes to
toEmail(self, to) ==
    LET phoneDigits == SelectSeq(to, isDigit)
        nationalNumber == IF startsWith(phoneDigits, "1") /\ Len(phoneDigits) = 11
                          THEN Tail(phoneDigits)
                          ELSE phoneDigits
    IN  nationalNumber \o <<"@">> \o self.carrierDomain

\* the one call of transporter.sendMail
emailRequest(self, to, body) ==
    [via |-> "email", url |-> <<self.transporter.host>>, to |-> toEmail(self, to),
     from |-> self.fromEmail, body |-> body,
     auth |-> <<self.transporter.user, self.transporter.pass>>]

\* EmailGatewaySmsClient.sendSms, given what sendMail answered
emailSendSms(self, to, body, answer) ==
    IF answer.kind = "resolved"
    THEN Success(to, answer.id)
    ELSE Failure(to, mapEmailError(answer.err))

----------------------------------------------------------------------------
(* src/sms/providers/ntfy.ts *)

NtfySmsClient(credentials) ==
    [kind |-> "ntfy", topic |-> credentials.topic,
     server |-> OrElse(credentials.server, https_ntfy_sh)]

\* the status as the template literal prints it
statusText(status) ==
    CASE status = 401 -> "401" [] status = 403 -> "403" [] status = 429 -> "429"
      [] status = 500 -> "500" [] OTHER -> "200"

\* mapHttpError with the rate limit marked as final
mapHttpError_finalRateLimit(status, message) ==
    IF status = 429
    THEN SendError("RATE_LIMITED", <<"Too many requests to ntfy.sh">>, FALSE,
             <<"You have exceeded the rate limit. Wait a moment and try again.">>)
    ELSE SendError("PROVIDER_ERROR",
             <<"ntfy.sh error (" \o statusText(status) \o "): ">> \o message,
             FALSE, <<"Check your NTFY_TOPIC setting and try again.">>)

mapHttpError(status, message) ==
    IF status = 429
    THEN SendError("RATE_LIMITED", <<"Too many requests to ntfy.sh">>, TRUE,
             <<"You have exceeded the rate limit. Wait a moment and try again.">>)
    ELSE SendError("PROVIDER_ERROR",
             <<"ntfy.sh error (" \o statusText(status) \o "): ">> \o message,
             FALSE, <<"Check your NTFY_TOPIC setting and try again.">>)

mapNetworkError(err) ==
    LET message == messageOf(err)
    IN  IF includes(message, <<"fetch", " ", "failed">>)
           \/ includes(message, <<"ENOTFOUND">>)
        THEN SendError("NETWORK_ERROR", <<"Could not connect to ntfy.sh">>, TRUE,
                 <<"Check your internet connection and try again.">>)
        ELSE SendError("PROVIDER_ERROR", <<"ntfy.sh error: ">> \o message, FALSE,
                 <<"An error occurred while sending the notification.">>)

\* the one call of fetch
\* the request with the destination appended to the URL
ntfyRequest_toInUrl(self, to, body) ==
    [via |-> "ntfy", url |-> self.server \o <<"/">> \o self.topic \o to,
     to |-> <<>>, from |-> <<>>, body |-> body,
     auth |-> <<>>]

ntfyRequest(self, to, body) ==
    [via |-> "ntfy", url |-> self.server \o <<"/">> \o self.topic,
     to |-> <<>>, from |-> <<>>, body |-> body,
     auth |-> <<>>]

\* response.ok
ok(status) == status \in 200..299

\* NtfySmsClient.sendSms, given what fetch answered
ntfySendSms(self, to, body, answer) ==
    IF answer.kind = "rejected"
    THEN Failure(to, mapNetworkError(answer.err))
    ELSE IF ~ok(answer.status)
    THEN Failure(to, mapHttpError(answer.status, answer.body.text))
    ELSE IF ~answer.body.json
    THEN Failure(to, mapNetworkError(SyntaxError))
    ELSE Success(to, answer.body.id)

----------------------------------------------------------------------------
(* src/sms/providers/pushover.ts *)

PushoverSmsClient(credentials) ==
    [kind |-> "pushover", userKey |-> credentials.userKey,
     apiToken |-> credentials.apiToken]

\* the one call of fetch
pushoverRequest(self, to, body) ==
    [via |-> "pushover", url |-> <<"https://api.pushover.net/1/messages.json">>,
     to |-> <<>>, from |-> <<>>, body |-> body,
     auth |-> <<self.apiToken, self.userKey>>]

\* result.errors?.join(', ') || 'Unknown error'
pushoverErrors(errors) ==
    IF errors = Undefined \/ join(errors, ", ") = ""
    THEN "Unknown error"
    ELSE join(errors, ", ")

\* PushoverSmsClient.sendSms, given what fetch answered
pushoverSendSms(self, to, body, answer) ==
    LET thrown == IF answer.kind = "rejected" THEN answer.err ELSE SyntaxError
    IN  IF answer.kind = "rejected" \/ ~answer.body.json
        THEN Failure(to, SendError("NETWORK_ERROR",
                 <<"Pushover error: ">> \o messageOf(thrown), TRUE,
                 <<"Check your internet connection and try again.">>))
        ELSE IF answer.body.status # 1
        THEN Failure(to, SendError("PROVIDER_ERROR",
                 <<"Pushover error: " \o pushoverErrors(answer.body.errors)>>,
                 FALSE,
                 <<"Check your PUSHOVER_USER and PUSHOVER_TOKEN settings.">>))
        ELSE Success(to, answer.body.request)

----------------------------------------------------------------------------
(* The inputs of an invocation *)

\* at most this many variables of the environment hold the empty string
MaxEmpty == 1

\* a variable is unset, empty, or set to a value
Setting(value) == {Undefined, <<>>, value}

Environments ==
    {e \in [PUSHOVER_USER       : Setting(<<"u", "k">>),
            PUSHOVER_TOKEN      : Setting(<<"t", "k">>),
            NTFY_TOPIC          : Setting(<<"m", "y">>),
            NTFY_SERVER         : {Undefined},
            TWILIO_ACCOUNT_SID  : Setting(<<"A", "C">>),
            TWILIO_AUTH_TOKEN   : Setting(<<"a", "t">>),
            TWILIO_PHONE_NUMBER : Setting(<<"+", "1", "5">>),
            EMAIL_USER          : Setting(<<"m", "e">>),
            EMAIL_PASS          : Setting(<<"p", "w">>),
            SMS_CARRIER         : Setting(<<"a", "t", "t">>)
                                    \cup {<<"V", "e", "r", "i", "z", "o", "n">>,
                                          <<"f", "o", "o">>},
            EMAIL_HOST          : {Undefined},
            EMAIL_PORT          : {Undefined},
            EMAIL_SECURE        : {Undefined}] :
        Cardinality({v \in DOMAIN e : e[v] = <<>>}) <= MaxEmpty}

\* the values of --country the invocations use (its default)
Countries == {"US"}

PhoneInputs ==
    {<<"+", "1", "4", "1", "5", "5", "5", "5", "2", "6", "7", "1">>,
     <<"4", "1", "5", "-", "5", "5", "5", "-", "2", "6", "7", "1">>,
     <<"+", "1", "4", "1", "5">>,
     <<"a", "b", "c">>}

Messages == {<<"H", "i">>, [i \in 1..161 |-> "a"]}

\* what twilio's RestException and Node's system errors look like
RestException(code, message) == Thrown(TRUE, TRUE, NumCode(code), message)
SystemError(code) == Thrown(TRUE, TRUE, StrCode(code), <<"connect", " ", code>>)

\* what client.messages.create may answer
TwilioAnswers ==
    {Resolved(<<"S", "M", "1">>)} \cup
    {Rejected(e) : e \in
        {RestException(20003, <<"Authenticate">>),
         RestException(29, <<"Too many requests">>),
         RestException(21211, <<"Invalid 'To' Phone Number">>),
         RestException(21614, Undefined),
         RestException(21608, <<"Unverified number">>),
         SystemError("ENOTFOUND"), SystemError("ECONNREFUSED"),
         SystemError("ETIMEDOUT"), SystemError("ECONNRESET"),
         Thrown(TRUE, TRUE, NoCode, <<"socket hang up">>),
         Thrown(FALSE, FALSE, NoCode, <<>>)}}

\* what transporter.sendMail may answer
EmailAnswers ==
    {Resolved(<<"<", "1", "@", "m", "e", ">">>)} \cup
    {Rejected(e) : e \in
        {SystemError("EAUTH"), SystemError("ECONNREFUSED"),
         SystemError("ENOTFOUND"), SystemError("ETIMEDOUT"),
         SystemError("EENVELOPE"),
         Thrown(TRUE, TRUE, NoCode, <<"Message failed">>)}}

\* what a rejected fetch throws, in Node (undici) and in Bun
FetchErrors ==
    {Thrown(TRUE, TRUE, NoCode, <<"fetch", " ", "failed">>),
     Thrown(TRUE, TRUE, StrCode("ENOTFOUND"),
            <<"getaddrinfo", " ", "ENOTFOUND", " ", "host">>),
     Thrown(TRUE, TRUE, StrCode("ConnectionRefused"),
            <<"Unable to connect. Is the computer able to access the url?">>),
     Thrown(TRUE, TRUE, StrCode("ETIMEDOUT"), <<"The operation timed out.">>)}

\* what fetch may answer to the ntfy client
NtfyAnswers ==
    {Rejected(e) : e \in FetchErrors} \cup
    {Response(200, Body(TRUE, <<"{}">>, <<"i", "d", "1">>, 0, Undefined, Undefined)),
     Response(200, Body(TRUE, <<"{}">>, Undefined, 0, Undefined, Undefined)),
     Response(200, Body(FALSE, <<"ok">>, Undefined, 0, Undefined, Undefined))} \cup
    {Response(st, Body(FALSE, <<"denied">>, Undefined, 0, Undefined, Undefined)) :
        st \in {401, 403, 429, 500}}

\* what fetch may answer to the Pushover client
PushoverAnswers ==
    {Rejected(e) : e \in FetchErrors} \cup
    {Response(200, Body(TRUE, <<"{}">>, Undefined, 1, <<"r", "1">>, Undefined)),
     Response(400, Body(TRUE, <<"{}">>, Undefined, 0, <<"r", "2">>,
                        <<"user identifier is invalid">>)),
     Response(400, Body(TRUE, <<"{}">>, Undefined, 0, <<"r", "3">>,
                        <<"application token is invalid">>)),
     Response(429, Body(TRUE, <<"{}">>, Undefined, 0, <<"r", "4">>, Undefined)),
     Response(500, Body(FALSE, <<"<html>">>, Undefined, 0, Undefined, Undefined))}

\* what the transport of a client may answer
Answers(kind) ==
    CASE kind = "twilio" -> TwilioAnswers
      [] kind = "email" -> EmailAnswers
      [] kind = "ntfy" -> NtfyAnswers
      [] kind = "pushover" -> PushoverAnswers

----------------------------------------------------------------------------
(* src/cli.ts *)

formatError(error) == <<"Error: ">> \o error.message \o <<"\n\n">> \o error.guidance

\* the switch of exitWithError with AUTH_FAILED under the wrong case
exitCodeOf_authAsNetwork(code) ==
    CASE code = "INVALID_PHONE" -> ExitCodes.VALIDATION_ERROR
      [] code \in {"MISSING_CONFIG"} -> ExitCodes.CONFIG_ERROR
      [] code \in {"AUTH_FAILED", "NETWORK_ERROR", "PROVIDER_ERROR",
                   "RATE_LIMITED"} -> ExitCodes.NETWORK_ERROR
      [] OTHER -> ExitCodes.GENERAL_ERROR

\* the switch of exitWithError
exitCodeOf(code) ==
    CASE code = "INVALID_PHONE" -> ExitCodes.VALIDATION_ERROR
      [] code \in {"MISSING_CONFIG", "AUTH_FAILED"} -> ExitCodes.CONFIG_ERROR
      [] code \in {"NETWORK_ERROR", "PROVIDER_ERROR", "RATE_LIMITED"} ->
            ExitCodes.NETWORK_ERROR
      [] OTHER -> ExitCodes.GENERAL_ERROR

exitWithError(error) ==
    /\ stderr' = Append(stderr, formatError(error))
    /\ reported' = Append(reported, error)
    /\ exitCode' = exitCodeOf(error.code)
    /\ pc' = "exited"

\* An exception that leaves the action: the promise commander drops is
\* rejected, and the runtime prints the error with its stack and exits with 1.
uncaught(message) ==
    /\ stderr' = Append(stderr, <<"error: ">> \o message \o <<"\n      at <stack>">>)
    /\ exitCode' = ExitCodes.GENERAL_ERROR
    /\ pc' = "crashed"
    /\ UNCHANGED reported

Init ==
    /\ pc = "start"
    /\ env \in Environments
    /\ argv = None
    /\ phoneResult = None
    /\ provider = "unset"
    /\ credentialsResult = None
    /\ client = None
    /\ transport = None
    /\ result = None
    /\ network = <<>>
    /\ stdout = <<>>
    /\ stderr = <<>>
    /\ exitCode = -1
    /\ reported = <<>>
    /\ stages = <<>>
    /\ segmentInfo = None
    /\ sanitized = Undefined
    /\ configFile = None

\* Step 1: validate the phone number
ValidatePhone ==
    /\ pc = "start"
    /\ \E phoneNumber \in PhoneInputs, message \in Messages,
          country \in Countries, quiet \in BOOLEAN :
        /\ argv' = [phoneNumber |-> phoneNumber, message |-> message,
                    options |-> [country |-> country, quiet |-> quiet]]
        /\ sanitized' = sanitizePhoneNumber(phoneNumber)
        /\ \E r \in validateAndFormatPhone(phoneNumber, country) :
            /\ phoneResult' = r
            /\ IF ~r.success
               THEN exitWithError(r.error)
               ELSE pc' = "validated" /\ UNCHANGED <<stderr, exitCode, reported>>
    /\ stages' = Append(stages, "validate")
    /\ UNCHANGED <<segmentInfo, env, provider, credentialsResult, client, transport, result,
                   network, stdout>>
    /\ UNCHANGED configFile

\* Step 2: detect the provider
DetectProvider ==
    /\ pc = "validated"
    /\ provider' = detectProvider(env)
    /\ pc' = "detected"
    /\ stages' = Append(stages, "detect")
    /\ UNCHANGED <<segmentInfo, env, argv, phoneResult, credentialsResult, client, transport,
                   result, network, stdout, stderr, exitCode, reported>>
    /\ UNCHANGED <<sanitized, configFile>>

\* the loader the if-chain calls for a provider
loaderOf(p, e) ==
    CASE p = "pushover" -> loadPushoverCredentials(e)
      [] p = "ntfy" -> loadNtfyCredentials(e)
      [] p = "twilio" -> loadCredentials(e)
      [] p = "email" -> loadEmailCredentials(e)

\* LoadCredentials without the exit on failure
LoadCredentials_noExit ==
    /\ pc = "detected"
    /\ provider # "none"
    /\ credentialsResult' = loaderOf(provider, env)
    /\ pc' = "loaded"
    /\ stages' = Append(stages, "load")
    /\ UNCHANGED <<segmentInfo, env, argv, phoneResult, provider, client, transport, result,
                   network, stdout, stderr, exitCode, reported>>
    /\ UNCHANGED <<sanitized, configFile>>

\* Step 2: load the credentials of the detected provider
LoadCredentials ==
    /\ pc = "detected"
    /\ provider # "none"
    /\ credentialsResult' = loaderOf(provider, env)
    /\ IF ~credentialsResult'.success
       THEN exitWithError(credentialsResult'.error)
       ELSE pc' = "loaded" /\ UNCHANGED <<stderr, exitCode, reported>>
    /\ stages' = Append(stages, "load")
    /\ UNCHANGED <<segmentInfo, env, argv, phoneResult, provider, client, transport, result,
                   network, stdout>>
    /\ UNCHANGED <<sanitized, configFile>>

\* the else branch reporting a provider error
NoProvider_providerError ==
    /\ pc = "detected"
    /\ provider = "none"
    /\ exitWithError(SendError("PROVIDER_ERROR", <<"No SMS provider configured">>,
           FALSE, <<"Please configure a provider">>))
    /\ UNCHANGED <<segmentInfo, env, argv, phoneResult, provider, credentialsResult, client,
                   transport, result, network, stdout, stages>>
    /\ UNCHANGED <<sanitized, configFile>>

\* Step 2, the else branch: no provider is configured
NoProvider ==
    /\ pc = "detected"
    /\ provider = "none"
    /\ exitWithError(SendError("MISSING_CONFIG", <<"No SMS provider configured">>,
           FALSE,
           <<"Please configure a provider:\n\nPushover ($5, reliable):\n  export ",
             "PUSHOVER_USER", "=\"your-user-key\"\n  export ",
             "PUSHOVER_TOKEN", "=\"your-api-token\"\n\nntfy.sh (free):\n  export ",
             "NTFY_TOPIC", "=\"my-alerts\"\n\nTwilio:\n  export ",
             "TWILIO_ACCOUNT_SID", "=\"...\"\n  export ",
             "TWILIO_AUTH_TOKEN", "=\"...\"\n  export ",
             "TWILIO_PHONE_NUMBER", "=\"...\"">>))
    /\ UNCHANGED <<segmentInfo, env, argv, phoneResult, provider, credentialsResult, client,
                   transport, result, network, stdout, stages>>
    /\ UNCHANGED <<sanitized, configFile>>

\* the factory the if-chain calls for a provider (src/sms/client.ts)
clientOf(p, credentials) ==
    CASE p = "pushover" -> PushoverSmsClient(credentials)
      [] p = "ntfy" -> NtfySmsClient(credentials)
      [] p = "twilio" -> TwilioSmsClient(credentials)
      [] p = "email" -> EmailGatewaySmsClient(credentials)

\* Step 2: construct the client
CreateClient ==
    /\ pc = "loaded"
    /\ LET made == clientOf(provider, credentialsResult.credentials)
       IN  IF made.kind = "thrown"
           THEN uncaught(made.message) /\ UNCHANGED client
           ELSE /\ client' = made
                /\ pc' = "constructed"
                /\ UNCHANGED <<stderr, exitCode, reported>>
    /\ stages' = Append(stages, "construct")
    /\ UNCHANGED <<segmentInfo, env, argv, phoneResult, provider, credentialsResult,
                   transport, result, network, stdout>>
    /\ UNCHANGED <<sanitized, configFile>>

\* the warning without the test of the provider
segmentWarning_everyProvider(p, message, quiet) ==
    LET info == calculateSegmentCount(message)
    IN  IF info.segmentCount > 1 /\ ~quiet
        THEN << <<"Warning: Message will be sent as multiple SMS segments",
                  info.encoding>> >>
        ELSE <<>>

\* Step 3: the lines console.warn prints before the send
segmentWarning(p, message, quiet) ==
    LET info == calculateSegmentCount(message)
    IN  IF p # "ntfy" /\ p # "pushover" /\ info.segmentCount > 1 /\ ~quiet
        THEN << <<"Warning: Message will be sent as multiple SMS segments",
                  info.encoding>> >>
        ELSE <<>>

\* the request a client issues
requestOf(self, to, body) ==
    CASE self.kind = "pushover" -> pushoverRequest(self, to, body)
      [] self.kind = "ntfy" -> ntfyRequest(self, to, body)
      [] self.kind = "twilio" -> twilioRequest(self, to, body)
      [] self.kind = "email" -> emailRequest(self, to, body)

\* client.sendSms, given what the transport answered
sendSms(self, to, body, answer) ==
    CASE self.kind = "pushover" -> pushoverSendSms(self, to, body, answer)
      [] self.kind = "ntfy" -> ntfySendSms(self, to, body, answer)
      [] self.kind = "twilio" -> twilioSendSms(self, to, body, answer)
      [] self.kind = "email" -> emailSendSms(self, to, body, answer)

\* SendMessage handing the backend the raw input
SendMessage_rawDestination ==
    /\ pc = "constructed"
    /\ segmentInfo' = IF provider # "ntfy" /\ provider # "pushover"
                      THEN calculateSegmentCount(argv.message)
                      ELSE segmentInfo
    /\ stderr' = stderr \o segmentWarning(provider, argv.message,
                                          argv.options.quiet)
    /\ network' = Append(network,
                         requestOf(client, argv.phoneNumber, argv.message))
    /\ \E answer \in Answers(client.kind) :
        /\ transport' = answer
        /\ result' = sendSms(client, argv.phoneNumber, argv.message, answer)
    /\ pc' = "sent"
    /\ stages' = Append(stages, "send")
    /\ UNCHANGED <<env, argv, phoneResult, provider, credentialsResult, client,
                   stdout, exitCode, reported>>
    /\ UNCHANGED <<sanitized, configFile>>

\* Steps 3 and 4: warn about segments, send the message and await the result
SendMessage ==
    /\ pc = "constructed"
    /\ segmentInfo' = IF provider # "ntfy" /\ provider # "pushover"
                      THEN calculateSegmentCount(argv.message)
                      ELSE segmentInfo
    /\ stderr' = stderr \o segmentWarning(provider, argv.message,
                                          argv.options.quiet)
    /\ network' = Append(network,
                         requestOf(client, phoneResult.phone.e164, argv.message))
    /\ \E answer \in Answers(client.kind) :
        /\ transport' = answer
        /\ result' = sendSms(client, phoneResult.phone.e164, argv.message, answer)
    /\ pc' = "sent"
    /\ stages' = Append(stages, "send")
    /\ UNCHANGED <<env, argv, phoneResult, provider, credentialsResult, client,
                   stdout, exitCode, reported>>
    /\ UNCHANGED <<sanitized, configFile>>

\* HandleResult sending again after a retryable failure
HandleResult_retries ==
    /\ pc = "sent"
    /\ IF ~result.success /\ result.error # None
       THEN IF result.error.retryable
            THEN pc' = "constructed" /\ UNCHANGED <<stderr, exitCode, reported>>
            ELSE exitWithError(result.error)
       ELSE /\ exitCode' = ExitCodes.SUCCESS
            /\ pc' = "exited"
            /\ UNCHANGED <<stderr, reported>>
    /\ UNCHANGED <<segmentInfo, env, argv, phoneResult, provider, credentialsResult, client,
                   transport, result, network, stages, stdout>>
    /\ UNCHANGED <<sanitized, configFile>>

\* HandleResult with the test of the result negated on its second half
HandleResult_fallsThrough ==
    /\ pc = "sent"
    /\ IF ~result.success /\ result.error = None
       THEN exitWithError(result.error) /\ UNCHANGED stdout
       ELSE /\ stdout' = stdout
            /\ exitCode' = ExitCodes.SUCCESS
            /\ pc' = "exited"
            /\ UNCHANGED <<stderr, reported>>
    /\ UNCHANGED <<segmentInfo, env, argv, phoneResult, provider, credentialsResult, client,
                   transport, result, network, stages>>
    /\ UNCHANGED <<sanitized, configFile>>

\* Steps 5 and 6: report the result and exit
HandleResult ==
    /\ pc = "sent"
    /\ IF ~result.success /\ result.error # None
       THEN exitWithError(result.error) /\ UNCHANGED stdout
       ELSE /\ stdout' = IF ~argv.options.quiet
                         THEN Append(stdout, <<"Message sent to ">> \o result.to
                                  \o <<" (ID: ">> \o result.messageId \o <<")">>)
                         ELSE stdout
            /\ exitCode' = ExitCodes.SUCCESS
            /\ pc' = "exited"
            /\ UNCHANGED <<stderr, reported>>
    /\ UNCHANGED <<segmentInfo, env, argv, phoneResult, provider, credentialsResult, client,
                   transport, result, network, stages>>
    /\ UNCHANGED <<sanitized, configFile>>

Next ==
    \/ ValidatePhone
    \/ DetectProvider
    \/ LoadCredentials
    \/ NoProvider
    \/ CreateClient
    \/ SendMessage
    \/ HandleResult

Spec == Init /\ [][Next]_vars

----------------------------------------------------------------------------
(* src/config/loader.ts, each loader called on its own *)

\* the environments the loaders are applied to: the optional variables are
\* unset, empty, or set (EMAIL_PORT also to a text that is no number, and
\* EMAIL_SECURE also to a text that is not 'true')
LoaderEnvironments ==
    {e \in [PUSHOVER_USER       : Setting(<<"u", "k">>),
            PUSHOVER_TOKEN      : Setting(<<"t", "k">>),
            NTFY_TOPIC          : Setting(<<"m", "y">>),
            NTFY_SERVER         : {Undefined, <<"h", "t", "t", "p", ":", "/", "/", "n">>},
            TWILIO_ACCOUNT_SID  : Setting(<<"A", "C">>),
            TWILIO_AUTH_TOKEN   : Setting(<<"a", "t">>),
            TWILIO_PHONE_NUMBER : Setting(<<"+", "1", "5">>),
            EMAIL_USER          : Setting(<<"m", "e">>),
            EMAIL_PASS          : Setting(<<"p", "w">>),
            SMS_CARRIER         : Setting(<<"a", "t", "t">>),
            EMAIL_HOST          : Setting(<<"m", "x">>),
            EMAIL_PORT          : {Undefined, <<"2", "5", "2", "5">>,
                                   <<"a", "b", "c">>},
            EMAIL_SECURE        : {Undefined, <<"t", "r", "u", "e">>,
                                   <<"f", "a", "l", "s", "e">>, <<"1">>}] :
        Cardinality({v \in DOMAIN e : e[v] = <<>>}) <= MaxEmpty}

LoaderInit ==
    /\ pc = "start"
    /\ env \in LoaderEnvironments
    /\ argv = None
    /\ phoneResult = None
    /\ provider = "unset"
    /\ credentialsResult = None
    /\ client = None
    /\ transport = None
    /\ result = None
    /\ network = <<>>
    /\ stdout = <<>>
    /\ stderr = <<>>
    /\ exitCode = -1
    /\ reported = <<>>
    /\ stages = <<>>
    /\ segmentInfo = None
    /\ sanitized = Undefined
    /\ configFile = None

\* a loader is called and returns
called(name, returned) ==
    /\ pc = "start"
    /\ credentialsResult' = returned
    /\ pc' = name
    /\ UNCHANGED <<env, argv, phoneResult, provider, client, transport, result,
                   network, stdout, stderr, exitCode, reported, stages,
                   segmentInfo>>
    /\ UNCHANGED <<sanitized, configFile>>

CallLoadCredentials == called("loadCredentials", loadCredentials(env))

CallLoadEmailCredentials ==
    called("loadEmailCredentials", loadEmailCredentials(env))

CallLoadNtfyCredentials ==
    called("loadNtfyCredentials", loadNtfyCredentials(env))

CallLoadPushoverCredentials ==
    called("loadPushoverCredentials", loadPushoverCredentials(env))

LoaderNext ==
    \/ CallLoadCredentials
    \/ CallLoadEmailCredentials
    \/ CallLoadNtfyCredentials
    \/ CallLoadPushoverCredentials

LoaderSpec == LoaderInit /\ [][LoaderNext]_vars

----------------------------------------------------------------------------
(* src/sms/types.ts, calculateSegmentCount called on its own *)

\* the longest run of basic, extended, other and astral characters in a text
\* that is analysed, and the longest text of extended characters alone
MaxBasic == 310
MaxExtended == 2
MaxWide == 1
MaxAstral == 2
MaxExtendedRun == 155

\* one character of each class: basic, extended, outside both sets in one
\* UTF-16 unit, outside both sets in two
Characters == {"a", "€", "ê"} \cup Astral

\* String.prototype.repeat
repeat(c, n) == [i \in 1..n |-> c]

\* the texts that are analysed
Texts ==
    {repeat("a", i) \o repeat("€", j) \o repeat("ê", k) \o repeat("U+1F600", l) :
        i \in 0..MaxBasic, j \in 0..MaxExtended, k \in 0..MaxWide,
        l \in 0..MaxAstral}
    \cup {repeat("€", j) \o repeat("ê", k) :
            j \in 0..MaxExtendedRun, k \in 0..MaxWide}

\* process.env with none of the variables set
NoEnvironment ==
    [v \in {"PUSHOVER_USER", "PUSHOVER_TOKEN", "NTFY_TOPIC", "NTFY_SERVER",
            "TWILIO_ACCOUNT_SID", "TWILIO_AUTH_TOKEN", "TWILIO_PHONE_NUMBER",
            "EMAIL_USER", "EMAIL_PASS", "SMS_CARRIER", "EMAIL_HOST",
            "EMAIL_PORT", "EMAIL_SECURE"} |-> Undefined]

AnalysisInit ==
    /\ pc = "start"
    /\ \E text \in Texts :
        argv = [phoneNumber |-> <<>>, message |-> text,
                options |-> [country |-> "US", quiet |-> FALSE]]
    /\ env = NoEnvironment
    /\ phoneResult = None
    /\ provider = "unset"
    /\ credentialsResult = None
    /\ client = None
    /\ transport = None
    /\ result = None
    /\ network = <<>>
    /\ stdout = <<>>
    /\ stderr = <<>>
    /\ exitCode = -1
    /\ reported = <<>>
    /\ stages = <<>>
    /\ segmentInfo = None
    /\ sanitized = Undefined
    /\ configFile = None

\* const segmentInfo = calculateSegmentCount(message)
Analyse ==
    /\ pc = "start"
    /\ segmentInfo' = calculateSegmentCount(argv.message)
    /\ pc' = "analysed"
    /\ UNCHANGED <<env, argv, phoneResult, provider, credentialsResult, client,
                   transport, result, network, stdout, stderr, exitCode,
                   reported, stages>>
    /\ UNCHANGED <<sanitized, configFile>>

\* the same call on the text with one more character at its end
AnalyseLonger ==
    /\ pc = "analysed"
    /\ \E c \in Characters :
        /\ argv' = [argv EXCEPT !.message = Append(@, c)]
        /\ segmentInfo' = calculateSegmentCount(argv'.message)
    /\ pc' = "appended"
    /\ UNCHANGED <<env, phoneResult, provider, credentialsResult, client,
                   transport, result, network, stdout, stderr, exitCode,
                   reported, stages>>
    /\ UNCHANGED <<sanitized, configFile>>

AnalysisNext ==
    \/ Analyse
    \/ AnalyseLonger

AnalysisSpec == AnalysisInit /\ [][AnalysisNext]_vars

----------------------------------------------------------------------------
(* src/validation/phone.ts, validateAndFormatPhone called on its own *)

\* the inputs: a number or something else, written with or without '+',
\* separators and surrounding blanks
PhoneBodies ==
    {<<"1", "4", "1", "5", "5", "5", "5", "2", "6", "7", "1">>,
     <<"1", " ", "(", "4", "1", "5", ")", " ", "5", "5", "5", "-", "2", "6", "7", "1">>,
     <<"4", "1", "5", ".", "5", "5", "5", ".", "2", "6", "7", "1">>,
     <<"4", "4", "7", "9", "1", "1", "1", "2", "3", "4", "5", "6">>,
     <<"7", "9", "1", "1", " ", "1", "2", "3", "4", "5", "6">>,
     <<"1", "4", "1", "5">>,
     <<"a", "b", "c">>,
     <<"(", "+", "1", ")", "4", "1", "5", "5", "5", "5", "2", "6", "7", "1">>,
     <<>>}

PhoneTexts ==
    {lead \o plus \o body \o trail :
        lead \in {<<>>, <<" ">>}, plus \in {<<>>, <<"+">>},
        body \in PhoneBodies, trail \in {<<>>, <<" ">>, <<"\t", "\n">>}}

PhoneInit ==
    /\ pc = "start"
    /\ \E text \in PhoneTexts, country \in Regions :
        argv = [phoneNumber |-> text, message |-> <<>>,
                options |-> [country |-> country, quiet |-> FALSE]]
    /\ env = NoEnvironment
    /\ phoneResult = None
    /\ provider = "unset"
    /\ credentialsResult = None
    /\ client = None
    /\ transport = None
    /\ result = None
    /\ network = <<>>
    /\ stdout = <<>>
    /\ stderr = <<>>
    /\ exitCode = -1
    /\ reported = <<>>
    /\ stages = <<>>
    /\ segmentInfo = None
    /\ sanitized = Undefined
    /\ configFile = None

\* validateAndFormatPhone(input, defaultCountry) is called and returns
validating(input, defaultCountry, next) ==
    /\ argv' = [argv EXCEPT !.phoneNumber = input,
                            !.options.country = defaultCountry]
    /\ sanitized' = sanitizePhoneNumber(input)
    /\ phoneResult' \in validateAndFormatPhone(input, defaultCountry)
    /\ pc' = next
    /\ UNCHANGED <<env, provider, credentialsResult, client, transport, result,
                   network, stdout, stderr, exitCode, reported, stages,
                   segmentInfo, configFile>>

CallValidate ==
    /\ pc = "start"
    /\ validating(argv.phoneNumber, argv.options.country, "validated")

\* the canonical value of a success is validated again, with any region
CallValidateCanonical ==
    /\ pc = "validated"
    /\ phoneResult.success
    /\ \E country \in Regions :
        validating(phoneResult.phone.e164, country, "revalidated")

\* the sanitized text is validated, and so sanitized, again
CallValidateSanitized ==
    /\ pc = "validated"
    /\ validating(sanitized, argv.options.country, "resanitized")

PhoneNext ==
    \/ CallValidate
    \/ CallValidateCanonical
    \/ CallValidateSanitized

PhoneSpec == PhoneInit /\ [][PhoneNext]_vars

----------------------------------------------------------------------------
(* src/config/loader.ts, loadConfigFile, and src/index.ts *)

\* String.prototype.indexOf for a one-character needle: the index from 0 of
\* its first occurrence, -1 when there is none
indexOf(s, c) ==
    IF \E i \in 1..Len(s) : s[i] = c
    THEN (CHOOSE i \in 1..Len(s) :
            s[i] = c /\ \A j \in 1..(i - 1) : s[j] # c) - 1
    ELSE -1

\* String.prototype.slice(from, to) with indexes from 0, 'to' excluded
slice(s, from, to) == SubSeq(s, from + 1, to)

\* String.prototype.endsWith, for a one-character suffix
endsWith(s, c) == Len(s) > 0 /\ s[Len(s)] = c

\* String.prototype.split for a one-character separator
RECURSIVE split(_, _)
split(s, sep) ==
    LET i == indexOf(s, sep)
    IN  IF i = -1 THEN <<s>>
        ELSE <<slice(s, 0, i)>> \o split(slice(s, i + 1, Len(s)), sep)

\* the body of the loop with the test of process.env[key] left out
setFromLine_fileWins(e, line) ==
    LET trimmed == trim(line)
        eqIndex == indexOf(trimmed, "=")
        key     == trim(slice(trimmed, 0, eqIndex))
        raw     == trim(slice(trimmed, eqIndex + 1, Len(trimmed)))
        value   == IF \/ startsWith(raw, "\"") /\ endsWith(raw, "\"")
                      \/ startsWith(raw, "'") /\ endsWith(raw, "'")
                   THEN slice(raw, 1, Len(raw) - 1)
                   ELSE raw
    IN  IF trimmed = <<>> \/ startsWith(trimmed, "#") THEN e
        ELSE IF eqIndex = -1 THEN e
        ELSE IF Len(key) = 1 /\ key[1] \in DOMAIN e
        THEN [e EXCEPT ![key[1]] = value]
        ELSE e

\* the body of the loop over the lines: process.env after one line.  The
\* name of a variable is one piece of the line; a key that is none of the
\* variables followed here leaves them as they are.
setFromLine(e, line) ==
    LET trimmed == trim(line)
        eqIndex == indexOf(trimmed, "=")
        key     == trim(slice(trimmed, 0, eqIndex))
        raw     == trim(slice(trimmed, eqIndex + 1, Len(trimmed)))
        value   == IF \/ startsWith(raw, "\"") /\ endsWith(raw, "\"")
                      \/ startsWith(raw, "'") /\ endsWith(raw, "'")
                   THEN slice(raw, 1, Len(raw) - 1)
                   ELSE raw
    IN  IF trimmed = <<>> \/ startsWith(trimmed, "#") THEN e
        ELSE IF eqIndex = -1 THEN e
        ELSE IF Len(key) = 1 /\ key[1] \in DOMAIN e
        THEN IF ~Truthy(e[key[1]])
             THEN [e EXCEPT ![key[1]] = value]
             ELSE e
        ELSE e

\* for (const line of lines)
RECURSIVE setFromLines(_, _)
setFromLines(e, lines) ==
    IF lines = <<>> THEN e
    ELSE setFromLines(setFromLine(e, Head(lines)), Tail(lines))

\* loadConfigFile: process.env when it returns.  readFileSync throws on a
\* file that cannot be read, and the catch swallows it.
loadConfigFile(e, file) ==
    IF ~file.exists THEN e
    ELSE IF ~file.readable THEN e
    ELSE setFromLines(e, split(file.content, "\n"))

\* at most this many lines in the config file
MaxLines == 2

\* lines of a config file
ConfigLines ==
    {<<>>,
     <<" ", "\t">>,
     <<"#", " ", "NTFY_TOPIC", "=", "c">>,
     <<"NTFY_TOPIC">>,
     <<"NTFY_TOPIC", "=", "f", "1">>,
     <<" ", "NTFY_TOPIC", " ", "=", " ", "\"", "f", "2", "\"", " ">>,
     <<"PUSHOVER_USER", "=", "'", "u", "'">>,
     <<"PUSHOVER_TOKEN", "=">>,
     <<"PUSHOVER_TOKEN", "=", "a", "=", "b">>,
     <<"PATH", "=", "/", "x">>}

\* ~/.config/notify/.env: absent, unreadable, or some lines joined by '\n'
ConfigFiles ==
    {[exists |-> FALSE, readable |-> FALSE, lines |-> <<>>, content |-> <<>>],
     [exists |-> TRUE, readable |-> FALSE, lines |-> <<>>, content |-> <<>>]}
    \cup
    {[exists |-> TRUE, readable |-> TRUE, lines |-> lines,
      content |-> joinPieces(lines, "\n")] :
        lines \in UNION {[1..n -> ConfigLines] : n \in 0..MaxLines}}

\* the shell's environment: the variables of the backends and one more
ShellEnvironments ==
    {[v \in DOMAIN NoEnvironment \cup {"PATH"} |->
        CASE v = "NTFY_TOPIC" -> topic
          [] v = "PUSHOVER_USER" -> user
          [] v = "PUSHOVER_TOKEN" -> token
          [] v = "PATH" -> <<"/", "b", "i", "n">>
          [] OTHER -> Undefined] :
        topic \in Setting(<<"m", "y">>),
        user \in {Undefined, <<"u", "k">>},
        token \in Setting(<<"t", "k">>)}

\* the process as it starts, before index.ts has run
ConfigInit ==
    /\ pc = "boot"
    /\ env \in ShellEnvironments
    /\ configFile \in ConfigFiles
    /\ argv = None
    /\ phoneResult = None
    /\ provider = "unset"
    /\ credentialsResult = None
    /\ client = None
    /\ transport = None
    /\ result = None
    /\ network = <<>>
    /\ stdout = <<>>
    /\ stderr = <<>>
    /\ exitCode = -1
    /\ reported = <<>>
    /\ stages = <<>>
    /\ segmentInfo = None
    /\ sanitized = Undefined

\* index.ts: loadConfigFile() returns, then program.parse runs the action
LoadConfigFile ==
    /\ pc = "boot"
    /\ env' = loadConfigFile(env, configFile)
    /\ pc' = "start"
    /\ stages' = Append(stages, "config")
    /\ UNCHANGED <<argv, phoneResult, provider, credentialsResult, client,
                   transport, result, network, stdout, stderr, exitCode,
                   reported, segmentInfo, sanitized, configFile>>

ConfigNext ==
    \/ LoadConfigFile
    \/ ValidatePhone
    \/ DetectProvider

ConfigSpec == ConfigInit /\ [][ConfigNext]_vars

----------------------------------------------------------------------------
(* src/sms/providers/email-gateway.ts behind cli.ts, from the loaded
   credentials on *)

\* values of SMS_CARRIER: the nine carriers, some in other cases, a name
\* that is no property of CARRIER_GATEWAYS, and names it inherits
Carriers ==
    {CARRIER_GATEWAYS[i][1] : i \in 1..Len(CARRIER_GATEWAYS)}
    \cup {<<"A", "T", "T">>, <<"T", "M", "o", "b", "i", "l", "e">>,
          <<"f", "o", "o">>,
          <<"c", "o", "n", "s", "t", "r", "u", "c", "t", "o", "r">>,
          <<"C", "o", "n", "s", "t", "r", "u", "c", "t", "o", "r">>}

\* numbers as the user types them, for either default country
GatewayPhoneInputs ==
    {<<"+", "1", "4", "1", "5", "5", "5", "5", "2", "6", "7", "1">>,
     <<"(", "4", "1", "5", ")", " ", "5", "5", "5", "-", "2", "6", "7", "1">>,
     <<"+", "4", "4", "2", "0", "7", "9", "4", "6", "0", "9", "5">>}

\* the run at the point where loadEmailCredentials has succeeded
GatewayInit ==
    /\ pc = "loaded"
    /\ \E carrier \in Carriers :
        env = [NoEnvironment EXCEPT !.EMAIL_USER = <<"m", "e">>,
                                    !.EMAIL_PASS = <<"p", "w">>,
                                    !.SMS_CARRIER = carrier]
    /\ \E phoneNumber \in GatewayPhoneInputs, country \in Regions,
          quiet \in BOOLEAN :
        /\ argv = [phoneNumber |-> phoneNumber, message |-> <<"H", "i">>,
                   options |-> [country |-> country, quiet |-> quiet]]
        /\ sanitized = sanitizePhoneNumber(phoneNumber)
        /\ phoneResult \in {r \in validateAndFormatPhone(phoneNumber, country) :
                                r.success}
    /\ provider = detectProvider(env)
    /\ credentialsResult = loaderOf(provider, env)
    /\ client = None
    /\ transport = None
    /\ result = None
    /\ network = <<>>
    /\ stdout = <<>>
    /\ stderr = <<>>
    /\ exitCode = -1
    /\ reported = <<>>
    /\ stages = <<"validate", "detect", "load">>
    /\ segmentInfo = None
    /\ configFile = None

GatewayNext ==
    \/ CreateClient
    \/ SendMessage
    \/ HandleResult

GatewaySpec == GatewayInit /\ [][GatewayNext]_vars

----------------------------------------------------------------------------
(* Properties *)

\* the run is over
Terminal == {"exited", "crashed"}

\* a variable of the environment holds a non-empty value
NonEmpty(e, name) == e[name] # Undefined /\ Len(e[name]) > 0

\* the presence check of a backend
Configured(e, p) ==
    CASE p = "pushover" -> NonEmpty(e, "PUSHOVER_USER") /\ NonEmpty(e, "PUSHOVER_TOKEN")
      [] p = "ntfy" -> NonEmpty(e, "NTFY_TOPIC")
      [] p = "twilio" -> NonEmpty(e, "TWILIO_ACCOUNT_SID")
                           /\ NonEmpty(e, "TWILIO_AUTH_TOKEN")
      [] p = "email" -> NonEmpty(e, "EMAIL_USER") /\ NonEmpty(e, "EMAIL_PASS")

\* the fixed order of the backends
Priority == <<"pushover", "ntfy", "twilio", "email">>

\* the backends whose presence check holds, by their place in the order
ConfiguredPlaces(e) == {i \in 1..Len(Priority) : Configured(e, Priority[i])}

\* C1: once detection has run, the provider is the first backend of the order
\* pushover, ntfy, twilio, email whose presence check holds in the
\* environment, and "none" when no check holds.
DetectsFirstConfigured ==
    provider # "unset" =>
        IF ConfiguredPlaces(env) = {}
        THEN provider = "none"
        ELSE /\ provider \in {Priority[i] : i \in ConfiguredPlaces(env)}
             /\ \A i \in ConfiguredPlaces(env), j \in 1..Len(Priority) :
                    Priority[j] = provider => j <= i

\* C1 witness: two backends are configured at once and the higher one is chosen
TwoConfiguredHigherChosen ==
    /\ provider = "ntfy"
    /\ ConfiguredPlaces(env) = {2, 3}

\* the stages of an invocation, in order
StageOrder == <<"validate", "detect", "load", "construct", "send">>

\* the last stage attempted
LastStage == stages[Len(stages)]

\* a text occurs in one of the outputs of a stream
Printed(stream, text) ==
    \E i \in 1..Len(stream) : includes(stream[i], text)

\* C2: the stages attempted are a prefix of validation, detection, loading,
\* construction, send; a stage that fails is the last one attempted and the run
\* ends with its error; an invalid phone number with no provider configured
\* ends as INVALID_PHONE with exit code 4 and neither a loader nor a send ran.
StagesInOrderFirstFailureEnds ==
    /\ Len(stages) <= Len(StageOrder)
    /\ stages = SubSeq(StageOrder, 1, Len(stages))
    /\ (phoneResult # None /\ ~phoneResult.success) =>
            /\ pc = "exited" /\ stages = <<"validate">>
            /\ reported = <<phoneResult.error>>
            /\ exitCode = 4
            /\ credentialsResult = None /\ client = None /\ network = <<>>
    /\ (provider = "none" /\ pc \in Terminal) =>
            /\ LastStage = "detect"
            /\ Len(reported) = 1 /\ reported[1].code = "MISSING_CONFIG"
    /\ (credentialsResult # None /\ ~credentialsResult.success) =>
            /\ pc = "exited" /\ LastStage = "load"
            /\ reported = <<credentialsResult.error>>
    /\ pc = "crashed" =>
            /\ LastStage = "construct" /\ client = None
            /\ Printed(stderr, <<"Unknown carrier: ">>)
    /\ (result # None /\ ~result.success /\ pc \in Terminal) =>
            /\ LastStage = "send"
            /\ reported = <<result.error>>
    /\ (pc \in Terminal /\ exitCode # 0) =>
            \/ phoneResult # None /\ ~phoneResult.success
            \/ provider = "none"
            \/ credentialsResult # None /\ ~credentialsResult.success
            \/ pc = "crashed"
            \/ result # None /\ ~result.success

\* C2 witness: an invalid phone number and no provider configured
InvalidPhoneAndNoProvider ==
    /\ pc = "exited"
    /\ ~phoneResult.success
    /\ ConfiguredPlaces(env) = {}

\* C3: when detection answers "none" the run can only end, with a
\* MISSING_CONFIG error and exit code 3, without a client and without a request.
NoneEndsAsMissingConfig ==
    provider = "none" =>
        /\ client = None
        /\ network = <<>>
        /\ transport = None
        /\ pc \in {"detected", "exited"}
        /\ pc = "exited" =>
            /\ exitCode = 3
            /\ Len(reported) = 1
            /\ reported[1].code = "MISSING_CONFIG"

\* C3 witness: a run without any configured backend has ended
NoneHasEnded ==
    /\ provider = "none"
    /\ pc = "exited"
    /\ ConfiguredPlaces(env) = {}

\* how often a stage was attempted
Attempts(stage) == Len(SelectSeq(stages, LAMBDA s : s = stage))

\* C4: send is attempted at most once and issues at most one request, sent by
\* the detected provider's client; once a result is there, also a failed and
\* retryable one, no step issues another request or attempts another send.
AtMostOneRequest ==
    /\ [](/\ Attempts("send") <= 1
          /\ Len(network) = Attempts("send")
          /\ \A i \in 1..Len(network) : network[i].via = provider)
    /\ [][result # None => network' = network /\ stages' = stages]_vars

\* C4 witness: a failed, retryable send has been reported
RetryableFailureReported ==
    /\ pc = "exited"
    /\ result # None
    /\ ~result.success
    /\ result.error.retryable
    /\ Len(network) = 1

\* C5: a finished run has exit code 0 exactly when send returned a result with
\* success = true; a run in which validation, loading, construction or send
\* failed has a non-zero exit code.
ZeroOnlyOnSuccess ==
    pc \in Terminal =>
        /\ exitCode >= 0
        /\ exitCode = 0 <=> (result # None /\ result.success)
        /\ exitCode = 0 => Attempts("send") = 1 /\ transport # None
        /\ (\/ ~phoneResult.success
            \/ provider = "none"
            \/ (credentialsResult # None /\ ~credentialsResult.success)
            \/ pc = "crashed"
            \/ (result # None /\ ~result.success)) => exitCode > 0

\* C5 witness: a run ended with exit code 0
ExitedWithZero ==
    /\ pc = "exited"
    /\ exitCode = 0
    /\ result.success

\* the exit code the contract gives an error kind
ContractExit(code) ==
    IF code = "INVALID_PHONE" THEN 4
    ELSE IF code = "MISSING_CONFIG" \/ code = "AUTH_FAILED" THEN 3
    ELSE IF code = "NETWORK_ERROR" \/ code = "PROVIDER_ERROR"
            \/ code = "RATE_LIMITED" THEN 5
    ELSE 1

\* C6: a run that exitWithError ended has the exit code the contract gives the
\* kind of the reported error; a run that ended without it sent successfully
\* and has exit code 0; a value outside the six kinds maps to 1.
ExitCodeByKind ==
    /\ pc = "exited" /\ reported # <<>> =>
            /\ Len(reported) = 1
            /\ reported[1].code \in ErrorCode
            /\ exitCode = ContractExit(reported[1].code)
    /\ pc = "exited" /\ reported = <<>> => result.success /\ exitCode = 0
    /\ \A code \in ErrorCode \cup {"SOMETHING_ELSE"} :
            exitCodeOf(code) = ContractExit(code)

\* C6 witness: a rate-limited send has ended the run with exit code 5
RateLimitedExit ==
    /\ pc = "exited"
    /\ Len(reported) = 1
    /\ reported[1].code = "RATE_LIMITED"
    /\ exitCode = 5

\* C7: no run ends by an exception; every failed run was reported once
\* through exitWithError, as "Error: <message>", a blank line and the guidance.
EveryFailureReportedAsValue ==
    /\ pc # "crashed"
    /\ (pc \in Terminal /\ exitCode # 0) =>
            /\ Len(reported) = 1
            /\ stderr[Len(stderr)] = <<"Error: ">> \o reported[1].message
                                        \o <<"\n\n">> \o reported[1].guidance

\* the answer of the transport carries an authentication-style signal
AuthSignal(kind, answer) ==
    CASE kind = "twilio" -> answer.kind = "rejected" /\ answer.err.code = NumCode(20003)
      [] kind = "email" -> answer.kind = "rejected" /\ answer.err.code = StrCode("EAUTH")
      [] kind = "ntfy" -> answer.kind = "response" /\ answer.status \in {401, 403}
      [] kind = "pushover" ->
            /\ answer.kind = "response" /\ answer.body.json
            /\ answer.body.status # 1
            /\ answer.body.errors \in {<<"user identifier is invalid">>,
                                       <<"application token is invalid">>}

\* C8: a send whose transport answered with an authentication-style signal
\* returns an error of kind AUTH_FAILED with retryable = false.
AuthSignalGivesAuthFailed ==
    (result # None /\ AuthSignal(client.kind, transport)) =>
        /\ ~result.success
        /\ result.error.code = "AUTH_FAILED"
        /\ ~result.error.retryable

\* the answer of the transport is a timeout, DNS or connection failure
NetworkSignal(kind, answer) ==
    /\ answer.kind = "rejected"
    /\ \/ kind \in {"ntfy", "pushover"}
       \/ answer.err.code \in {StrCode("ETIMEDOUT"), StrCode("ENOTFOUND"),
                               StrCode("ECONNREFUSED")}

\* C9: a send whose transport failed by timeout, DNS or connection returns
\* NETWORK_ERROR with retryable = true, and no other send returns NETWORK_ERROR.
NetworkErrorExactlyOnNetworkFailure ==
    result # None =>
        /\ NetworkSignal(client.kind, transport) =>
                /\ ~result.success
                /\ result.error.code = "NETWORK_ERROR"
                /\ result.error.retryable
        /\ (~result.success /\ result.error.code = "NETWORK_ERROR") =>
                NetworkSignal(client.kind, transport)

\* the transport accepted the request
Accepted(kind, answer) ==
    CASE kind \in {"twilio", "email"} -> answer.kind = "resolved"
      [] kind = "ntfy" -> answer.kind = "response" /\ answer.status \in 200..299
      [] kind = "pushover" ->
            answer.kind = "response" /\ answer.body.json /\ answer.body.status = 1

\* C10: a send returns success = true exactly when the transport accepted the
\* request, whatever else the response holds.
SuccessExactlyWhenAccepted ==
    result # None => (result.success <=> Accepted(client.kind, transport))

\* C11: every send result carries a messageId (a non-empty text) exactly when
\* success is true and an error exactly when success is false, so that a
\* failed result never reaches the success output.
ResultCarriesIdXorError ==
    result # None =>
        /\ Truthy(result.messageId) <=> result.success
        /\ result.error # None <=> ~result.success
        /\ (pc = "exited" /\ ~result.success) => stdout = <<>>

\* the loaders, and that one of them has returned
Loaders == {"loadCredentials", "loadEmailCredentials", "loadNtfyCredentials",
            "loadPushoverCredentials"}
Loaded == pc \in Loaders

\* the required fields of the bundle a loader returns
RequiredFields(loader) ==
    CASE loader = "loadCredentials" -> {"accountSid", "authToken", "fromNumber"}
      [] loader = "loadEmailCredentials" -> {"user", "pass", "carrier"}
      [] loader = "loadNtfyCredentials" -> {"topic"}
      [] loader = "loadPushoverCredentials" -> {"userKey", "apiToken"}

\* C12: a loader returns either a bundle whose required fields are all present
\* and non-empty, or no bundle and an error of kind MISSING_CONFIG with
\* retryable = false.
BundleFullOrMissingConfig ==
    Loaded =>
        IF credentialsResult.success
        THEN /\ credentialsResult.error = None
             /\ \A f \in RequiredFields(pc) :
                    /\ credentialsResult.credentials[f] # Undefined
                    /\ Len(credentialsResult.credentials[f]) > 0
        ELSE /\ credentialsResult.credentials = None
             /\ credentialsResult.error.code = "MISSING_CONFIG"
             /\ ~credentialsResult.error.retryable

\* the Twilio loader has refused an environment that the detector accepts
\* (account and token set, the phone number empty)
EmptyPhoneNumberRefused ==
    /\ pc = "loadCredentials"
    /\ ~credentialsResult.success
    /\ Truthy(env.TWILIO_ACCOUNT_SID) /\ Truthy(env.TWILIO_AUTH_TOKEN)
    /\ env.TWILIO_PHONE_NUMBER = <<>>

\* the variables a loader requires
RequiredVariables(loader) ==
    CASE loader = "loadCredentials" ->
            {"TWILIO_ACCOUNT_SID", "TWILIO_AUTH_TOKEN", "TWILIO_PHONE_NUMBER"}
      [] loader = "loadEmailCredentials" -> {"EMAIL_USER", "EMAIL_PASS", "SMS_CARRIER"}
      [] loader = "loadNtfyCredentials" -> {"NTFY_TOPIC"}
      [] loader = "loadPushoverCredentials" -> {"PUSHOVER_USER", "PUSHOVER_TOKEN"}

\* the required variables of a loader that are absent or empty
AbsentOrEmpty(loader) ==
    {v \in RequiredVariables(loader) : env[v] = Undefined \/ env[v] = <<>>}

\* the variable names a text lists
Listed(text) == {text[i] : i \in 1..Len(text)} \cap DOMAIN env

\* C13: a loader fails exactly when a required variable of its own is absent
\* or empty, and then its message and its guidance list exactly those
\* variables, whatever the other variables (and so the detector) say.
LoaderListsExactlyTheMissing ==
    Loaded =>
        /\ credentialsResult.success <=> AbsentOrEmpty(pc) = {}
        /\ ~credentialsResult.success =>
                /\ Listed(credentialsResult.error.message) = AbsentOrEmpty(pc)
                /\ Listed(credentialsResult.error.guidance) = AbsentOrEmpty(pc)

\* the email loader has listed two variables in an environment where the
\* detector selects another backend
TwoListedWhileDetectorSaysPushover ==
    /\ pc = "loadEmailCredentials"
    /\ ~credentialsResult.success
    /\ Listed(credentialsResult.error.message) = {"EMAIL_PASS", "SMS_CARRIER"}
    /\ detectProvider(env) = "pushover"

\* a variable is supplied: set, and not to the empty text
Supplied(v) == env[v] # Undefined /\ env[v] # <<>>

\* the documented defaults of the optional settings
Documented ==
    [EMAIL_HOST |-> <<"smtp.gmail.com">>, EMAIL_PORT |-> 587,
     EMAIL_SECURE |-> FALSE, NTFY_SERVER |-> <<"https://ntfy.sh">>]

NoProviderGuidanceListsEveryBackend ==
    (provider = "none" /\ Len(reported) = 1) =>
        \A loader \in Loaders :
            RequiredVariables(loader) \subseteq Listed(reported[1].guidance)

\* the loader of a backend
LoaderOfBackend ==
    [pushover |-> "loadPushoverCredentials", ntfy |-> "loadNtfyCredentials",
     twilio |-> "loadCredentials", email |-> "loadEmailCredentials"]

\* the backends of lower priority than p whose required variables are all set
UsableBelow(p) ==
    {q \in {"pushover", "ntfy", "twilio", "email"} :
        /\ \E i, j \in 1..Len(Priority) :
                Priority[i] = p /\ Priority[j] = q /\ i < j
        /\ AbsentOrEmpty(LoaderOfBackend[q]) = {}}

\* C16: when the loader of the detected provider fails while a provider of
\* lower priority is fully configured, the run does not end with that
\* failure: the message is sent through a lower-priority provider.
FallsBackToConfiguredProvider ==
    (/\ pc \in Terminal
     /\ credentialsResult # None /\ ~credentialsResult.success
     /\ UsableBelow(provider) # {}) =>
        /\ Len(network) = 1
        /\ network[1].via \in UsableBelow(provider)

\* calculateSegmentCount has returned for the text argv.message
Analysed == pc \in {"analysed", "appended"}

\* the characters of a text
CharactersOf(text) == {text[i] : i \in 1..Len(text)}

\* C17: the encoding is GSM-7 exactly when every character of the text is in
\* the basic or the extended set, and UCS-2 exactly when one is in neither;
\* the empty text and a text of basic characters are GSM-7.
EncodingByCharacterSets ==
    Analysed =>
        LET text == argv.message
            inside == CharactersOf(text) \subseteq
                        (GSM7_BASIC_CHARS \cup GSM7_EXTENDED_CHARS)
        IN  /\ segmentInfo.encoding = "GSM-7" <=> inside
            /\ segmentInfo.encoding = "UCS-2" <=> ~inside
            /\ CharactersOf(text) \subseteq GSM7_BASIC_CHARS =>
                    segmentInfo.encoding = "GSM-7"

\* a text with basic and extended characters has been found GSM-7
BasicAndExtendedIsGsm7 ==
    /\ Analysed
    /\ CharactersOf(argv.message) = {"a", "€"}
    /\ segmentInfo.encoding = "GSM-7"

\* how many characters (code points) of a text are in a set
Among(text, set) == Cardinality({i \in 1..Len(text) : text[i] \in set})

\* C18: the effective character count is, under GSM-7, the basic characters
\* plus twice the extended characters, and under UCS-2 the characters of the
\* text counted as code points, a two-unit character counting once.
EffectiveCountInCodePoints ==
    Analysed =>
        segmentInfo.charCount =
            IF segmentInfo.encoding = "GSM-7"
            THEN Among(argv.message, GSM7_BASIC_CHARS)
                    + 2 * Among(argv.message, GSM7_EXTENDED_CHARS)
            ELSE Len(argv.message)

\* C19: with c the effective count, there is one segment exactly when c is at
\* most 160 (GSM-7) or 70 (UCS-2), and ceil(c / 153) or ceil(c / 67) segments
\* otherwise; there is always at least one segment, and appending a
\* character to the text never lowers the segment count.
SegmentsByLimits ==
    /\ [](Analysed =>
            LET c == segmentInfo.charCount
                n == segmentInfo.segmentCount
                single == IF segmentInfo.encoding = "GSM-7" THEN 160 ELSE 70
                multi == IF segmentInfo.encoding = "GSM-7" THEN 153 ELSE 67
            IN  /\ n >= 1
                /\ n = 1 <=> c <= single
                /\ c > single => (n - 1) * multi < c /\ c <= n * multi)
    /\ [][pc' = "appended" =>
            segmentInfo'.segmentCount >= segmentInfo.segmentCount]_vars

\* a 160-character GSM-7 text has grown by one character into two segments
GrownIntoTwoSegments ==
    /\ pc = "appended"
    /\ segmentInfo.encoding = "GSM-7"
    /\ segmentInfo.charCount = 161
    /\ segmentInfo.segmentCount = 2

\* the segment warning has been printed
Warned ==
    \E i \in 1..Len(stderr) :
        stderr[i][1] = "Warning: Message will be sent as multiple SMS segments"

\* C20: the segment warning is printed only in a run whose provider is twilio
\* or email and that invokes send; the analysis blocks nothing: once the
\* client is constructed the next step is the send, whatever the segment
\* count, and the exit code follows from the send result alone.
SegmentWarningOnlyAdvises ==
    /\ [](/\ Warned => /\ provider \in {"twilio", "email"}
                       /\ Attempts("send") = 1 /\ Len(network) = 1
          /\ pc = "constructed" => ENABLED SendMessage
          /\ (pc = "exited" /\ result # None) =>
                exitCode = IF result.success THEN 0
                           ELSE ContractExit(result.error.code))
    /\ [][pc = "constructed" =>
            /\ pc' = "sent"
            /\ Len(network') = Len(network) + 1]_vars

\* a two-segment message has been warned about, sent through Twilio and
\* accepted
WarnedAndSent ==
    /\ Warned
    /\ provider = "twilio"
    /\ segmentInfo # None /\ segmentInfo.segmentCount = 2
    /\ pc = "exited" /\ exitCode = 0

\* a text is '+' followed by digits only
PlusThenDigits(text) ==
    /\ Len(text) >= 2
    /\ text[1] = "+"
    /\ \A i \in 2..Len(text) :
            text[i] \in {"0", "1", "2", "3", "4", "5", "6", "7", "8", "9"}

Validated == pc \in {"validated", "revalidated", "resanitized"}

\* C22: validateAndFormatPhone always returns a result; a failure has kind
\* INVALID_PHONE, retryable = false and a guidance that contains the input
\* as it was given; a success carries that input unchanged as raw.
PhoneFailureNamesTheInput ==
    Validated =>
        /\ phoneResult # None
        /\ IF phoneResult.success
           THEN /\ phoneResult.error = None
                /\ phoneResult.phone.raw = argv.phoneNumber
           ELSE /\ phoneResult.phone = None
                /\ phoneResult.error.code = "INVALID_PHONE"
                /\ ~phoneResult.error.retryable
                /\ includes(phoneResult.error.guidance, argv.phoneNumber)

\* the parser has thrown on an input that sanitizing changes
ParserThrewOnPaddedInput ==
    /\ pc = "validated"
    /\ ~phoneResult.success
    /\ phoneResult.error.message = <<"Invalid phone number format">>
    /\ sanitized # argv.phoneNumber

\* the characters sanitizing removes: whitespace, hyphens, parentheses, periods
Separators == {" ", "\t", "\n", "-", "(", ")", "."}

\* the first character of a text after its leading whitespace is '+'
PlusAfterBlanks(text) ==
    \E i \in 1..Len(text) :
        /\ text[i] = "+"
        /\ \A j \in 1..(i - 1) : text[j] \in {" ", "\t", "\n"}

Destinations ==
    PhoneInputs \cup {<<>>, <<"+", "4", "4", "2", "0", "7", "9", "4", "6",
                              "0", "9", "5", "8">>}

\* C24: for the ntfy and Pushover backends the request issued and the
\* success or failure of the result are the same whatever destination is
\* passed with the same message and credentials: a different destination
\* changes only the 'to' field of the result.
DestinationOnlyEchoed ==
    (pc = "sent" /\ client.kind \in {"ntfy", "pushover"}) =>
        \A to \in Destinations :
            /\ requestOf(client, to, argv.message) = network[Len(network)]
            /\ sendSms(client, to, argv.message, transport) =
                    [result EXCEPT !.to = to]

\* the ntfy backend has published a message and echoes the destination
NtfyPublished ==
    /\ pc = "sent"
    /\ client.kind = "ntfy"
    /\ result.success
    /\ result.to = phoneResult.phone.e164
    /\ Len(network) = 1

\* C25: whenever send has been reached, the destination handed to the
\* backend is the canonical E.164 value of the validation, not the raw
\* input; the result carries that value in 'to' on success and on failure;
\* and the success line names it.
DestinationIsCanonical ==
    result # None =>
        /\ phoneResult.success
        /\ PlusThenDigits(phoneResult.phone.e164)
        /\ network[Len(network)] =
                requestOf(client, phoneResult.phone.e164, argv.message)
        /\ client.kind = "twilio" =>
                network[Len(network)].to = phoneResult.phone.e164
        /\ result.to = phoneResult.phone.e164
        /\ (pc = "exited" /\ exitCode = ExitCodes.SUCCESS
                /\ ~argv.options.quiet) =>
                stdout = << <<"Message sent to ">> \o phoneResult.phone.e164
                            \o <<" (ID: ">> \o result.messageId \o <<")">> >>

\* a number typed in national format has been sent through twilio and the
\* success line printed
NationalNumberSentCanonical ==
    /\ pc = "exited"
    /\ exitCode = ExitCodes.SUCCESS
    /\ client.kind = "twilio"
    /\ argv.phoneNumber = <<"4", "1", "5", "-", "5", "5", "5", "-", "2", "6", "7", "1">>
    /\ result.to = <<"+", "1", "4", "1", "5", "5", "5", "5", "2", "6", "7", "1">>
    /\ Len(stdout) = 1

\* the error values the run has constructed so far
ErrorsConstructed ==
    {r.error : r \in {r \in {phoneResult, credentialsResult, result} :
                        r # None /\ ~r.success /\ r.error # None}}
        \cup {reported[i] : i \in 1..Len(reported)}

\* C26: every error value the program constructs has the retryable flag of
\* its kind: INVALID_PHONE, MISSING_CONFIG and AUTH_FAILED are never
\* retryable, NETWORK_ERROR and RATE_LIMITED always are.
RetryableByKind ==
    \A e \in ErrorsConstructed :
        /\ e.code \in {"INVALID_PHONE", "MISSING_CONFIG", "AUTH_FAILED"} =>
                ~e.retryable
        /\ e.code \in {"NETWORK_ERROR", "RATE_LIMITED"} => e.retryable

\* ntfy has answered 429 and the result carries a retryable RATE_LIMITED
RateLimitedIsRetryable ==
    /\ pc = "sent"
    /\ client.kind = "ntfy"
    /\ transport.status = 429
    /\ result.error.code = "RATE_LIMITED"
    /\ result.error.retryable

\* the one required variable of a backend that its presence check leaves out
ThirdVariable(p) ==
    CASE p = "twilio" -> {"TWILIO_PHONE_NUMBER"}
      [] p = "email" -> {"SMS_CARRIER"}
      [] OTHER -> {}

\* C28: the loader that runs after detection succeeds whenever the detected
\* provider is pushover or ntfy; it fails only for twilio with
\* TWILIO_PHONE_NUMBER absent or empty and for email with SMS_CARRIER absent
\* or empty, and then names that variable alone.
LoaderAfterDetectionFailsOnlyOnThird ==
    credentialsResult # None =>
        /\ provider = detectProvider(env)
        /\ provider \in {"pushover", "ntfy"} => credentialsResult.success
        /\ ~credentialsResult.success =>
                /\ provider \in {"twilio", "email"}
                /\ \A v \in ThirdVariable(provider) : ~NonEmpty(env, v)
                /\ Listed(credentialsResult.error.message) =
                        ThirdVariable(provider)
        /\ credentialsResult.success =>
                \A v \in ThirdVariable(provider) : NonEmpty(env, v)

\* twilio was detected and its loader failed on the sender's number
TwilioLoaderFailedOnNumber ==
    /\ pc = "exited"
    /\ provider = "twilio"
    /\ ~credentialsResult.success
    /\ env.TWILIO_PHONE_NUMBER = <<>>
    /\ Len(reported) = 1

\* what each line of a config file says: the variable it names and the value
\* it gives, or no variable for a blank line, a comment and a line without '='
Skipped == [key |-> "", value |-> <<>>]
Says(line) ==
    CASE line = <<"NTFY_TOPIC", "=", "f", "1">> ->
            [key |-> "NTFY_TOPIC", value |-> <<"f", "1">>]
      [] line = <<" ", "NTFY_TOPIC", " ", "=", " ", "\"", "f", "2", "\"", " ">> ->
            [key |-> "NTFY_TOPIC", value |-> <<"f", "2">>]
      [] line = <<"PUSHOVER_USER", "=", "'", "u", "'">> ->
            [key |-> "PUSHOVER_USER", value |-> <<"u">>]
      [] line = <<"PUSHOVER_TOKEN", "=">> ->
            [key |-> "PUSHOVER_TOKEN", value |-> <<>>]
      [] line = <<"PUSHOVER_TOKEN", "=", "a", "=", "b">> ->
            [key |-> "PUSHOVER_TOKEN", value |-> <<"a", "=", "b">>]
      [] line = <<"PATH", "=", "/", "x">> ->
            [key |-> "PATH", value |-> <<"/", "x">>]
      [] OTHER -> Skipped

\* the values a readable config file gives a variable, in the file's order
Given(v) ==
    LET said == [i \in 1..Len(configFile.lines) |-> Says(configFile.lines[i])]
    IN  IF configFile.exists /\ configFile.readable
        THEN SelectSeq(said, LAMBDA r : r.key = v)
        ELSE <<>>

\* the value of a variable once the config file has been loaded
AfterConfig(v) ==
    LET given == Given(v)
        full  == SelectSeq(given, LAMBDA r : r.value # <<>>)
    IN  IF NonEmpty(env, v) \/ given = <<>> THEN env[v]
        ELSE IF full # <<>> THEN full[1].value
        ELSE <<>>

\* C27: loadConfigFile leaves every variable that has a non-empty value as it
\* is, gives a variable that is unset or empty the value of the file's
\* lines for it (blank lines, comments and lines without '=' say nothing),
\* always returns, whether the file is missing, unreadable or read, and has
\* returned before the provider is detected from the resulting environment.
ConfigFileFillsOnlyGaps ==
    /\ [][pc = "boot" =>
            /\ pc' = "start"
            /\ \A v \in DOMAIN env :
                /\ NonEmpty(env, v) => env'[v] = env[v]
                /\ env'[v] = AfterConfig(v)]_vars
    /\ [][pc # "boot" => env' = env]_vars
    /\ [](provider # "unset" =>
            /\ stages[1] = "config"
            /\ provider = detectProvider(env))

\* the file named a topic and a PATH: the topic was taken, ntfy detected, and
\* the shell's PATH kept
TopicFromFilePathFromShell ==
    /\ pc = "detected"
    /\ provider = "ntfy"
    /\ configFile.lines = << <<"PATH", "=", "/", "x">>,
                             <<" ", "NTFY_TOPIC", " ", "=", " ", "\"", "f", "2", "\"", " ">> >>
    /\ env.NTFY_TOPIC = <<"f", "2">>
    /\ env.PATH = <<"/", "b", "i", "n">>

\* C29: of two invocations that differ only in the quiet flag, the provider
\* selected, the request sent and the error stream are the same: when the
\* send has returned, the error stream holds what it holds in the invocation
\* with the flag the other way round, quiet changing nothing but the
\* non-error output.
QuietLeavesErrorStreamAlone ==
    pc = "sent" =>
        /\ provider = detectProvider(env)
        /\ network = <<requestOf(client, phoneResult.phone.e164, argv.message)>>
        /\ stderr = segmentWarning(provider, argv.message, ~argv.options.quiet)

\* the domains of the nine supported carriers whose name is the text in
\* lower case
CarrierDomains(text) ==
    {CARRIER_GATEWAYS[i][2] : i \in {i \in 1..Len(CARRIER_GATEWAYS) :
                                        CARRIER_GATEWAYS[i][1] = toLowerCase(text)}}

\* the digits of a destination, without the leading 1 of eleven digits
GatewayDigits(to) ==
    LET digits == SelectSeq(to, LAMBDA c : c \in DOMAIN Digit)
    IN  IF Len(digits) = 11 /\ digits[1] = "1" THEN Tail(digits) ELSE digits

\* C30: the email gateway sends to '<digits>@<carrier domain>': the digits
\* of the destination, without the leading 1 when they are exactly eleven
\* and start with 1, and the domain of the one of the nine supported carriers
\* that SMS_CARRIER names, whatever its case.
GatewayAddressIsDigitsAtCarrier ==
    (network # <<>> /\ network[1].via = "email") =>
        \E domain \in CarrierDomains(env.SMS_CARRIER) :
            network[1].to =
                GatewayDigits(phoneResult.phone.e164) \o <<"@">> \o domain

====
